---------------------------- MODULE Spec2Model ----------------------------
(***************************************************************************)
(* A model of taintedword.py, the heuristic DOCX provenance scorer.        *)
(*                                                                         *)
(* Texts.  The text of an archive entry is a sequence of fragments; a      *)
(* fragment is a piece of XML text.  Matches[f] is the set of the code's   *)
(* search patterns (string literals and regular expressions, spelled as in *)
(* the source) that occur in fragment f, so `p in txt` of the source is    *)
(* In(p, txt) here.  The first fragment of an entry is its opening, the    *)
(* start tag of its root element; the fragments after it are the content   *)
(* of the root.  An entry with no fragment is a zero-byte entry.           *)
(*                                                                         *)
(* Scores are kept in hundredths of a point (6 is 600, 0.3 is 30, 4.99 is  *)
(* 499): every weight of the source is a multiple of 0.1 and every         *)
(* threshold comparison of the source gives the same answer on the         *)
(* floating-point sums as on these exact sums.                             *)
(***************************************************************************)
EXTENDS Integers, Sequences, FiniteSets, TLC

Bad == "<unclosed"

(* ---- fragments of each entry and the patterns that occur in them ------ *)

AppFragments ==
     ( "<?xml version=\"1.0\"?><Properties xmlns=\".../extended-properties\">" :> {} )
  @@ ( "<Properties xmlns=\".../extended-properties\">" :> {"^<Properties"} )
  @@ ( "<Application>Microsoft Office Word</Application>" :>
         {"Application", "<Application>", "elem:Application", "val:word",
          "Microsoft Office Word"} )
  @@ ( "<Application>LibreOffice/7.3.7.2$Linux_X86_64</Application>" :>
         {"Application", "<Application>", "elem:Application", "val:libreoffice", "$Linux_"} )
  @@ ( "<Application>Pages</Application>" :>
         {"Application", "<Application>", "elem:Application", "\\bApple\\b|\\bPages\\b"} )
  @@ ( "<AppVersion>16.0000</AppVersion>" :> {"AppVersion"} )
  @@ ( "<Template>Normal.dotm</Template>" :> {"<Template>"} )
  @@ ( "<Generator>pandoc 3.1</Generator>" :> {"(?i)pandoc"} )
  @@ ( "<TotalTime>0</TotalTime>" :> {} )

CoreFragments ==
     ( "<cp:coreProperties xmlns:cp=\"...\" xmlns:dc=\"...\">" :> {"<cp:coreProperties"} )
  @@ ( "<coreProperties xmlns=\".../core-properties\">" :> {} )
  @@ ( "<dc:creator>Alice</dc:creator>" :> {"<dc:"} )
  @@ ( "<dc:title>Report</dc:title>" :> {"<dc:"} )
  @@ ( "<dc:creator/>" :>
         {"<dc:", "<dc:creator\\s*/>|<cp:lastModifiedBy>\\s*</cp:lastModifiedBy>"} )
  @@ ( "<cp:lastModifiedBy>Bob</cp:lastModifiedBy>" :> {} )
  @@ ( "<lastModifiedBy>Bob</lastModifiedBy>" :> {"<lastModifiedBy>"} )
  @@ ( "<cp:revision>2</cp:revision>" :> {"<cp:revision>"} )
  @@ ( "<dc:description>made with Apple Pages</dc:description>" :>
         {"<dc:", "\\bApple\\b|\\bPages\\b"} )
  @@ ( "xmlns:b=\"http://schemas.openxmlformats.org/officeDocument/2006/bibliography\"" :>
         {"schemas.openxmlformats.org/officeDocument/2006/bibliography"} )
  @@ ( "xmlns:o=\"http://schemas.microsoft.com/office/2006/metadata\"" :>
         {"schemas.microsoft.com/office"} )
  @@ ( "<cp:keywords>https://contoso.sharepoint.com/sites/x</cp:keywords>" :>
         {"https://.*sharepoint\\.com", "(?i)poi"} )

CustomFragments ==
     ( "<Properties xmlns:vt=\".../docPropsVTypes\">" :> {} )
  @@ ( "<vt:bool>1</vt:bool>" :> {"<vt:bool>1</vt:bool>"} )
  @@ ( "<vt:lpwstr>7.3.7.2$Linux_X86_64</vt:lpwstr>" :> {"vt:lpwstr", "$Linux_"} )
  @@ ( "<vt:lpwstr>Contoso</vt:lpwstr>" :> {"vt:lpwstr"} )

ContentTypesFragments ==
     ( "<Types xmlns=\".../content-types\">" :> {} )
  @@ ( "<Default Extension=\"xml\" ContentType=\"application/xml\"/>" :> {} )
  @@ ( "<Default Extension=\"png\" ContentType=\"image/png\"/>" :> {"image/png"} )
  @@ ( "<Override PartName=\"/word/document.xml\"/>" :>
         {"/word/document.xml", "elem:Override", "PartName:/word/document.xml", "PartName^/word/"} )
  @@ ( "<Override PartName=\"/word/styles.xml\"/>" :>
         {"/word/styles.xml", "elem:Override", "PartName:/word/styles.xml", "PartName^/word/"} )
  @@ ( "<Override PartName=\"/word/settings.xml\"/>" :>
         {"/word/settings.xml", "elem:Override", "PartName:/word/settings.xml", "PartName^/word/"} )
  @@ ( "<Override PartName=\"/word/fontTable.xml\"/>" :>
         {"/word/fontTable.xml", "elem:Override", "PartName:/word/fontTable.xml", "PartName^/word/"} )
  @@ ( "<Override PartName=\"/word/theme/theme1.xml\"/>" :>
         {"/word/theme/theme1.xml", "word/theme/theme1.xml", "elem:Override", "PartName:/word/theme/theme1.xml", "PartName^/word/"} )
  @@ ( "<Override PartName=\"/word/numbering.xml\"/>" :>
         {"/word/numbering.xml", "elem:Override", "PartName:/word/numbering.xml", "PartName^/word/"} )
  @@ ( "<Override PartName=\"/docProps/core.xml\"/>" :>
         {"/docProps/core.xml", "elem:Override", "PartName:/docProps/core.xml", "PartName^/docProps/"} )
  @@ ( "<Override PartName=\"/docProps/app.xml\"/>" :>
         {"/docProps/app.xml", "elem:Override", "PartName:/docProps/app.xml", "PartName^/docProps/"} )
  @@ ( "<Override PartName=\"/docProps/custom.xml\"/>" :>
         {"/docProps/custom.xml", "elem:Override", "PartName:/docProps/custom.xml", "PartName^/docProps/"} )
  @@ ( "<Override PartName=\"/customXml/itemProps1.xml\"/>" :>
         {"/customXml/", "itemProps\\d+\\.xml", "elem:Override", "PartName:/customXml/itemProps1.xml"} )

FontFragments ==
     ( "<w:fonts xmlns:w=\".../main\">" :> {"xmlns:w="} )
  @@ ( "<w:font w:name=\"Calibri\">" :> {"Calibri"} )
  @@ ( "<w:font w:name=\"Cambria\">" :> {"Cambria"} )
  @@ ( "<w:font w:name=\"Cambria Math\">" :> {"Cambria", "Cambria Math"} )
  @@ ( "<w:font w:name=\"Liberation Serif\">" :> {"Liberation", "Liberation Serif"} )
  @@ ( "<w:font w:name=\"Noto Sans\">" :> {"Noto", "Noto Sans"} )
  @@ ( "<w:font w:name=\"Roboto\">" :> {"Roboto"} )
  @@ ( "<w:font w:name=\"Play\">" :> {"w:font[^>]+name=\"Play\""} )
  @@ ( "<w:font w:name=\"Aptos\">" :> {"Aptos"} )
  @@ ( "<w:font w:name=\"Lucida Grande\">" :> {"Lucida"} )
  @@ ( "<w:font w:name=\"SimSun\">" :> {"SimSun"} )
  @@ ( "<w:panose1 w:val=\"020F0502020204030204\"/>" :> {"<w:panose1"} )
  @@ ( "<w:sig w:usb0=\"E4002EFF\"/>" :> {"<w:sig"} )

DocFragments ==
     ( "<w:document xmlns:w=\".../main\">" :> {"<w:document xmlns:w=", "xmlns:w="} )
  @@ ( "<w:document xmlns:r=\"...\" xmlns:w=\".../main\">" :> {"xmlns:r=", "xmlns:w="} )
  @@ ( "<w:document xmlns:wpc=\"...\" xmlns:mc=\"...\" xmlns:r=\"...\" xmlns:w=\"...\" xmlns:w14=\"...\" mc:Ignorable=\"w14\">" :>
         {"xmlns:mc=", "xmlns:r=", "xmlns:w=", "xmlns:w14=", "mc:Ignorable"} )
  @@ ( "<w:p w:rsidR=\"00A1\"><w:r><w:t>text</w:t></w:r></w:p>" :> {"rsidR", "<w:r>"} )
  @@ ( "<w:p><w:r><w:t>text</w:t></w:r></w:p>" :> {"<w:p>", "<w:r>"} )
  @@ ( "<w:p><w:r>a</w:r><w:r>b</w:r><w:r>c</w:r><w:r>d</w:r></w:p>" :> {"<w:p>", "<w:r>"} )
  @@ ( "<w:pPr><w:pStyle w:val=\"BodyText\"/></w:pPr>" :> {"<w:pPr>"} )
  @@ ( "<w:pPr><w:spacing w:after=\"160\"/></w:pPr>" :> {"<w:pPr>", "w:spacing"} )
  @@ ( "<w:rFonts w:ascii=\"Times\"/>" :> {"<w:rFonts w:ascii=\"Times\""} )
  @@ ( "<w:formProt w:val=\"false\"/>" :> {"<w:formProt"} )
  @@ ( "<w:lang w:val=\"en-US\"/>" :> {"<w:lang"} )
  @@ ( "<w:sectPr><w:pgSz w:w=\"12240\"/></w:sectPr>" :> {"<w:sectPr"} )
  @@ ( "<w:tblLayout w:type=\"fixed\"/>" :>
         {"<w:tblLayout", "<w:tblLayout[^>]*w:type=\"fixed\""} )

StylesFragments ==
     ( "<w:styles xmlns:w=\".../main\">" :> {"xmlns:w=", "<w:style"} )
  @@ ( "<w:docDefaults>" :> {"<w:docDefaults"} )
  @@ ( "<w:latentStyles w:count=\"376\"> ... </w:latentStyles>" :> {"<w:latentStyles", "\n"} )
  @@ ( "<w:style w:styleId=\"Normal\">" :> {"styleId=\"Normal\"", "<w:style"} )
  @@ ( "<!-- <w:styleId=\"Normal\"/> -->" :> {"<w:styleId=\"Normal\"", "styleId=\"Normal\"", "<w:style"} )
  @@ ( "<w:style w:styleId=\"Heading1\">" :> {"Heading1|Heading2|Heading3", "Heading1", "<w:style"} )
  @@ ( "<w:style w:styleId=\"Standard\">" :> {"w:style:standard", "<w:style"} )
  @@ ( "<w:style w:styleId=\"SourceCode\">" :>
         {"styleId=\"SourceCode\"|styleId=\"VerbatimChar\"", "<w:style"} )
  @@ ( "<w:style w:styleId=\"KeywordTok\">" :>
         {"styleId=\"KeywordTok\"|styleId=\"StringTok\"|styleId=\"CommentTok\"", "<w:style"} )
  @@ ( "<w:rFonts w:ascii=\"Liberation Serif\"/>" :> {"Liberation Serif", "Liberation"} )
  @@ ( "<w:semiHidden w:val=\"1\"/>" :> {"w:semiHidden w:val=\"1\""} )
  @@ ( "<w:tblW w:w=\"0.0\" w:type=\"auto\"/>" :> {"w:w=\"[\\d]+\\.[\\d]+\""} )
  @@ ( "<w:color w:val=\"1a73e8\"/>" :> {"w:color w:val=\"[0-9a-f]{6}\""} )
  @@ ( "xmlns:w16se=\"http://schemas.microsoft.com/office/word/2015/wordml/symex\"" :>
         {"word/2015/wordml/symex", "w16se", "schemas.microsoft.com/office"} )

SettingsFragments ==
     ( "<w:settings xmlns:w=\".../main\">" :> {"xmlns:w="} )
  @@ ( "<w:autoHyphenation w:val=\"true\"/>" :> {"<w:autoHyphenation"} )
  @@ ( "xmlns:w16du=\".../word/2023/wordml/word16du\"" :> {"w16du"} )

ThemeFragments ==
     ( "<a:theme xmlns:a=\"...\" name=\"Office Theme\">" :> {"<a:theme", "Office Theme"} )
  @@ ( "<a:theme xmlns:a=\"...\" name=\"Default Theme\">" :>
         {"<a:theme", "name=\"Default Theme\""} )
  @@ ( "xmlns:thm15=\".../thememl/2012/main\"" :> {"xmlns:thm15"} )
  @@ ( "<a:sysClr val=\"windowText\" lastClr=\"000000\"/>" :> {"<a:sysClr"} )
  @@ ( "<a:srgbClr val=\"0E2841\"/>" :> {"<a:srgbClr"} )
  @@ ( "<a:srgbClr val=\"4F81BD\"/>" :> {"<a:srgbClr", "4F81BD"} )
  @@ ( "<a:latin typeface=\"Helvetica Neue\"/>" :> {"Helvetica Neue"} )
  @@ ( "<a:objectDefaults>" :> {"<a:objectDefaults>"} )
  @@ ( "<a:extLst>" :> {"<a:extLst>"} )

WebSettingsFragments ==
     ( "<w:webSettings xmlns:w=\".../main\">" :> {"xmlns:w="} )
  @@ ( "<w:doNotSaveAsSingleFile/>" :> {"<w:doNotSaveAsSingleFile"} )
  @@ ( "<w:optimizeForBrowser/>" :> {"optimizeForBrowser"} )

ExtraFragments ==
     ( "<item>" :> {} )
  @@ ( "<entry/>" :> {} )

(* The text of an entry is an opening (the start tag of its root element,   *)
(* after an XML declaration or not) followed by fragments of its content.   *)
(* The openings an entry of each name may have, the usual one first.        *)
Openings ==
     ( "docProps/app.xml" :>
         << "<?xml version=\"1.0\"?><Properties xmlns=\".../extended-properties\">",
            "<Properties xmlns=\".../extended-properties\">" >> )
  @@ ( "docProps/core.xml" :>
         << "<cp:coreProperties xmlns:cp=\"...\" xmlns:dc=\"...\">",
            "<coreProperties xmlns=\".../core-properties\">" >> )
  @@ ( "docProps/custom.xml" :> << "<Properties xmlns:vt=\".../docPropsVTypes\">" >> )
  @@ ( "[Content_Types].xml" :> << "<Types xmlns=\".../content-types\">" >> )
  @@ ( "word/fontTable.xml" :> << "<w:fonts xmlns:w=\".../main\">" >> )
  @@ ( "word/document.xml" :>
         << "<w:document xmlns:wpc=\"...\" xmlns:mc=\"...\" xmlns:r=\"...\" xmlns:w=\"...\" xmlns:w14=\"...\" mc:Ignorable=\"w14\">",
            "<w:document xmlns:r=\"...\" xmlns:w=\".../main\">",
            "<w:document xmlns:w=\".../main\">" >> )
  @@ ( "word/styles.xml" :> << "<w:styles xmlns:w=\".../main\">" >> )
  @@ ( "word/settings.xml" :> << "<w:settings xmlns:w=\".../main\">" >> )
  @@ ( "word/theme/theme1.xml" :>
         << "<a:theme xmlns:a=\"...\" name=\"Office Theme\">",
            "<a:theme xmlns:a=\"...\" name=\"Default Theme\">" >> )
  @@ ( "word/webSettings.xml" :> << "<w:webSettings xmlns:w=\".../main\">" >> )
  @@ ( "webextensions/taskpanes.xml" :> << "<item>" >> )
  @@ ( "customXml/contoso.sharepoint.com.xml" :> << "<item>" >> )

EntryFragments ==
     ( "docProps/app.xml" :> DOMAIN AppFragments )
  @@ ( "docProps/core.xml" :> DOMAIN CoreFragments )
  @@ ( "docProps/custom.xml" :> DOMAIN CustomFragments )
  @@ ( "[Content_Types].xml" :> DOMAIN ContentTypesFragments )
  @@ ( "word/fontTable.xml" :> DOMAIN FontFragments )
  @@ ( "word/document.xml" :> DOMAIN DocFragments )
  @@ ( "word/styles.xml" :> DOMAIN StylesFragments )
  @@ ( "word/settings.xml" :> DOMAIN SettingsFragments )
  @@ ( "word/theme/theme1.xml" :> DOMAIN ThemeFragments )
  @@ ( "word/webSettings.xml" :> DOMAIN WebSettingsFragments )
  @@ ( "webextensions/taskpanes.xml" :> DOMAIN ExtraFragments )
  @@ ( "customXml/contoso.sharepoint.com.xml" :> DOMAIN ExtraFragments )

(* The fragments the content of an entry of each name may hold. *)
FragmentsOf ==
  [n \in DOMAIN EntryFragments |->
     EntryFragments[n] \ {Openings[n][i] : i \in DOMAIN Openings[n]}]

Matches ==
  AppFragments @@ CoreFragments @@ CustomFragments @@ ContentTypesFragments
  @@ FontFragments @@ DocFragments @@ StylesFragments @@ SettingsFragments
  @@ ThemeFragments @@ WebSettingsFragments @@ ExtraFragments @@ ( Bad :> {} )

(* Fragments in which a counted pattern occurs more than once. *)
Multiple ==
     ( <<"<w:p><w:r>a</w:r><w:r>b</w:r><w:r>c</w:r><w:r>d</w:r></w:p>", "<w:r>">> :> 4 )
  @@ ( <<"<w:latentStyles w:count=\"376\"> ... </w:latentStyles>", "\n">> :> 12 )

(* ---- text helpers ------------------------------------------------------ *)

(* p in txt *)
In(p, txt) == \E i \in DOMAIN txt : p \in Matches[txt[i]]

Occurrences(p, f) ==
  IF <<f, p>> \in DOMAIN Multiple THEN Multiple[<<f, p>>]
  ELSE IF p \in Matches[f] THEN 1 ELSE 0

RECURSIVE Count(_, _)
(* txt.count(p) *)
Count(p, txt) ==
  IF txt = <<>> THEN 0 ELSE Occurrences(p, Head(txt)) + Count(p, Tail(txt))

(* len(txt.splitlines()): a fragment is a line unless it holds line breaks *)
SplitLines(txt) == Len(txt) + Count("\n", txt)

(* txt.strip().startswith(p) *)
StartsWith(p, txt) == txt # <<>> /\ ("^" \o p) \in Matches[Head(txt)]

Min(a, b) == IF a <= b THEN a ELSE b

(* ---- ZIP & XML helpers -------------------------------------------------- *)

None == [kind |-> "None"]
ParseError == [kind |-> "ParseError"]

(* ET.fromstring: the tree keeps the elements in document order, the root   *)
(* first and its children after it; an empty text and an unclosed tag are   *)
(* syntax errors.                                                           *)
fromstring(txt) ==
  IF txt = <<>> \/ (\E i \in DOMAIN txt : txt[i] = Bad) THEN ParseError
  ELSE [kind |-> "Element", elems |-> txt]

read_xml_from_zip(zf, name) ==
  IF name \notin DOMAIN zf THEN None ELSE fromstring(zf[name])

read_text_from_zip(zf, name) ==
  IF name \notin DOMAIN zf THEN <<>> ELSE zf[name]

(* ---- folding the signal checks ------------------------------------------ *)

Start == [score |-> 0, ev |-> <<>>]

(* if cond: score += w; ev.append(e) *)
Hit(acc, cond, w, e) ==
  IF cond THEN [score |-> acc.score + w, ev |-> Append(acc.ev, e)] ELSE acc

(* if cond: ev.append(e) *)
Note(acc, cond, e) ==
  IF cond THEN [acc EXCEPT !.ev = Append(@, e)] ELSE acc

(* score += w, whatever the condition *)
Add_always(acc, cond, w) == [acc EXCEPT !.score = @ + w]

(* if cond: score += w *)
Add(acc, cond, w) ==
  IF cond THEN [acc EXCEPT !.score = @ + w] ELSE acc

(* the score rescaled from the largest sum of weights (12) to 10 *)
Result_renormalized(acc) == [score |-> (acc.score * 1000) \div 1200, ev |-> acc.ev]

(* return min(score, 10.0), ev *)
Result(acc) == [score |-> Min(acc.score, 1000), ev |-> acc.ev]

(* The text of the first element whose tag ends with "Application" holds v  *)
(* (lower-cased): the loop over app_xml.iter() with its break.              *)
ApplicationHas(app_xml, v) ==
  /\ app_xml.kind = "Element"
  /\ \E i \in DOMAIN app_xml.elems :
       /\ "elem:Application" \in Matches[app_xml.elems[i]]
       /\ \A j \in 1..(i - 1) : "elem:Application" \notin Matches[app_xml.elems[j]]
       /\ ("val:" \o v) \in Matches[app_xml.elems[i]]

(* ---- LibreOffice signals ------------------------------------------------ *)

lo_checks(zf, parts) ==
  LET font_txt == parts["font_txt"]
      doc_txt == parts["doc_txt"]
      styles_txt == parts["styles_txt"]
      settings_txt == parts["settings_txt"]
      ct_txt == parts["content_types_txt"]
      custom_txt == parts["custom_props_txt"]
      core_txt == parts["core_txt"]
      styles_root == parts["styles_xml"]
      (* the try block: findall on a None styles_root raises, and is caught *)
      names == IF styles_root.kind = "Element"
               THEN \E i \in DOMAIN Tail(styles_root.elems) :
                      \E n \in {"text body", "standard", "heading", "index"} :
                        ("w:style:" \o n) \in Matches[Tail(styles_root.elems)[i]]
               ELSE FALSE
      a1 == Hit(Start, ApplicationHas(parts["app_xml"], "libreoffice"), 600,
                "Application tag indicates LibreOffice")
      a2 == Hit(a1, \E f \in {"Liberation", "Noto", "Lohit"} : In(f, font_txt), 300,
                "LibreOffice font families present (Liberation/Noto/Lohit)")
      a3 == Note(a2, ~In("<w:panose1", font_txt) /\ ~In("<w:sig", font_txt)
                       /\ font_txt # <<>>,
                "No <w:panose1> or <w:sig> font fingerprints (often present in Word)")
      a4 == Hit(a3, In("<w:formProt", doc_txt), 300,
                "Found <w:formProt> (LibreOffice hallmark)")
      a5 == Hit(a4, styles_txt # <<>> /\ names, 300,
                "Found LibreOffice-style names (Text Body / Standard)")
      a6 == Hit(a5, styles_txt # <<>>
                    /\ \E f \in {"Liberation Sans", "Liberation Serif", "Noto Sans", "Lohit"} :
                         In(f, styles_txt), 300,
                "LibreOffice font families referenced in styles")
      a7 == Hit(a6, In("<w:autoHyphenation", settings_txt), 50,
                "Contains <w:autoHyphenation> (possible LO default)")
      a8 == Hit(a7, \E m \in {"image/png", "image/jpeg"} : In(m, ct_txt), 100,
                "Lists extra image MIME types (often seen in LO)")
      a9 == Hit(a8, In("<vt:bool>0</vt:bool>", custom_txt)
                    \/ In("<vt:bool>1</vt:bool>", custom_txt), 20,
                "Boolean serialization uses numeric form (LibreOffice style)")
      a10 == Hit(a9, In("vt:lpwstr", custom_txt) /\ In("$Linux_", custom_txt), 30,
                "AppVersion property includes LibreOffice/Linux signature")
      a11 == Hit(a10, In("schemas.openxmlformats.org/officeDocument/2006/bibliography", core_txt)
                      /\ ~In("schemas.microsoft.com/office", core_txt), 40,
                "Open bibliography schema without Microsoft URIs (LO-style rewrite)")
  IN Result(a11)

(* ---- Google Docs signals ------------------------------------------------ *)

gdocs_checks(zf, parts) ==
  LET styles_txt == parts["styles_txt"]
      font_txt == parts["font_txt"]
      lower_hex == In("w:color w:val=\"[0-9a-f]{6}\"", styles_txt)
      has_symex == In("word/2015/wordml/symex", styles_txt) \/ In("w16se", styles_txt)
      play == In("w:font[^>]+name=\"Play\"", font_txt) \/ In("Play Bold", font_txt)
      roboto == \E f \in {"Roboto", "Noto Sans", "Noto Serif"} : In(f, font_txt)
      fonts_hit == play \/ roboto
      a1 == Hit(Start, In("w:semiHidden w:val=\"1\"", styles_txt)
                       \/ In("w:unhideWhenUsed w:val=\"1\"", styles_txt), 200,
                "Boolean attributes serialized as w:val='1' (Google Docs pattern)")
      a2 == Hit(a1, In("w:w=\"[\\d]+\\.[\\d]+\"", styles_txt), 150,
                "Decimal-style numeric attributes (e.g., w:w='0.0') found")
      a3 == Note(a2, lower_hex,
                "Lowercase 6-digit hex color codes (weak Google Docs pattern)")
      a4 == Note(a3, has_symex,
                "Contains w16se:symex namespace (weak marker; Word may include)")
      a5 == Hit(a4, play, 300, "Contains Play / Play Bold fonts (Google bundle)")
      a6 == Hit(a5, roboto, 150, "Contains Roboto/Noto font families (Google pattern)")
      strong == (lower_hex \/ has_symex) /\ (fonts_hit \/ a6.score >= 250)
      a7 == Add(a6, strong /\ lower_hex, 50)
      a8 == Add(a7, strong /\ has_symex, 50)
  IN Result(a8)

(* ---- Apple Pages signals ------------------------------------------------ *)

pages_checks(zf, parts) ==
  LET theme_txt == parts["theme_txt"]
      app_core_txt == parts["app_txt"] \o parts["core_txt"]
      a1 == Hit(Start, In("Helvetica Neue", theme_txt), 450,
                "Contains Helvetica Neue (Apple Pages default font)")
      a2 == Hit(a1, In("<a:theme", theme_txt) /\ In("Office Theme", theme_txt)
                    /\ ~In("xmlns:thm15", theme_txt), 150,
                "Missing thm15 theme namespace (Pages-style theme)")
      a3 == Hit(a2, In("<a:srgbClr", theme_txt) /\ ~In("<a:sysClr", theme_txt), 100,
                "Theme uses only <a:srgbClr> (no <a:sysClr>)")
      a4 == Hit(a3, (~In("<a:objectDefaults>", theme_txt) \/ ~In("<a:extLst>", theme_txt))
                    /\ a3.score >= 150, 50,
                "No <a:objectDefaults> or <a:extLst> (weak Pages indicator)")
      a5 == Hit(a4, In("\\bApple\\b|\\bPages\\b", app_core_txt), 350,
                "Explicit Apple/Pages marker in metadata")
  IN Result(a5)

(* ---- Pandoc / Programmatic signals -------------------------------------- *)

pandoc_checks(zf, parts) ==
  LET app_txt == parts["app_txt"]
      core_txt == parts["core_txt"]
      styles_txt == parts["styles_txt"]
      theme_txt == parts["theme_txt"]
      doc_txt == parts["doc_txt"]
      font_txt == parts["font_txt"]
      web_txt == read_text_from_zip(zf, "word/webSettings.xml")
      a1 == Hit(Start, In("(?i)pandoc", app_txt \o core_txt), 800,
                "Application or core properties mention Pandoc")
      a2 == Hit(a1, ~(\E tag \in {"Application", "AppVersion", "Company"} : In(tag, app_txt))
                    /\ app_txt # <<>>, 150,
                "App properties minimal (likely programmatic generation)")
      a3 == Hit(a2, In("styleId=\"SourceCode\"|styleId=\"VerbatimChar\"", styles_txt), 250,
                "Contains 'SourceCode' / 'VerbatimChar' styles (Pandoc hallmark)")
      a4 == Hit(a3, In("styleId=\"KeywordTok\"|styleId=\"StringTok\"|styleId=\"CommentTok\"",
                       styles_txt), 200,
                "Contains Pygments token styles (Pandoc code highlighting)")
      a5 == Hit(a4, ~In("xmlns:thm15", theme_txt) /\ In("<a:srgbClr", theme_txt)
                    /\ ~In("<a:sysClr", theme_txt), 150,
                "Theme lacks thm15 namespace, uses only sRGB colors (Pandoc minimal theme)")
      a6 == Hit(a5, (\A f \in {"Calibri", "Cambria"} : In(f, font_txt))
                    /\ ~(\E x \in {"Aptos", "Liberation", "Roboto"} : In(x, font_txt)), 100,
                "Generic Calibri/Cambria font table (typical Pandoc default)")
      a7 == Hit(a6, ~In("rsidR", doc_txt) /\ ~In("mc:Ignorable", doc_txt), 100,
                "Document XML lacks Word-specific rsid and mc:Ignorable attributes")
      a8 == Hit(a7, In("<w:doNotSaveAsSingleFile", web_txt)
                    /\ ~In("optimizeForBrowser", web_txt), 80,
                "Contains <w:doNotSaveAsSingleFile> without optimizeForBrowser (Pandoc default)")
      a9 == Hit(a8, ~In("<w:latentStyles", styles_txt)
                    /\ In("<w:styleId=\"Normal\"", styles_txt), 80,
                "Missing <w:latentStyles> (common in Pandoc-generated DOCX)")
      a10 == Hit(a9, Count("<w:r>", doc_txt) < 2 * Count("<w:p>", doc_txt), 80,
                "Low <w:r>/<w:p> ratio (flattened run structure typical of Pandoc)")
      a11 == Hit(a10, In("<w:pPr>", doc_txt)
                      /\ ~(\E k \in {"w:spacing", "w:ind", "w:contextualSpacing"} :
                             In(k, doc_txt)), 50,
                "Paragraph properties minimal (no spacing/indent attributes)")
      a12 == Hit(a11, In("Lucida", font_txt) /\ ~In("Cambria Math", font_txt), 50,
                "Math font substitution (Lucida instead of Cambria Math)")
      a13 == Hit(a12, \E c \in {"4F81BD", "C0504D", "9BBB59", "8064A2", "4BACC6", "F79646"} :
                        In(c, theme_txt), 50,
                "Classic Office 2007 color palette (Pandoc default theme)")
      a14 == Hit(a13, In("<dc:creator\\s*/>|<cp:lastModifiedBy>\\s*</cp:lastModifiedBy>",
                         core_txt), 50,
                "Empty author/modified fields (metadata stripped by Pandoc)")
  IN Result(a14)

(* ---- WordPad signals ---------------------------------------------------- *)

wordpad_checks(zf, parts) ==
  LET content_types == parts["content_types_txt"]
      has_theme == In("/word/theme/theme1.xml", content_types)
      has_settings == In("/word/settings.xml", content_types)
      has_fonts == In("/word/fontTable.xml", content_types)
      styles_txt == parts["styles_txt"]
      doc_txt == parts["doc_txt"]
      a1 == Hit(Start, ~has_theme /\ ~has_settings /\ ~has_fonts, 300,
                "Content_Types.xml lacks theme/settings/fontTable overrides (WordPad pattern)")
      a2 == Hit(a1, 0 < SplitLines(styles_txt) /\ SplitLines(styles_txt) < 10
                    /\ In("<w:styleId=\"Normal\"", styles_txt), 300,
                "Tiny styles.xml with only 'Normal' style (WordPad hallmark)")
      a3 == Hit(a2, In("<w:document xmlns:w=", doc_txt) /\ ~In("xmlns:r=", doc_txt)
                    /\ ~In("xmlns:mc=", doc_txt), 300,
                "Document XML uses only xmlns:w (minimal namespace set typical of WordPad)")
      a4 == Hit(a3, parts["app_txt"] = <<>> /\ parts["core_txt"] = <<>>, 100,
                "No app/core properties (WordPad omits docProps entirely)")
  IN Result(a4)

(* ---- TextEdit signals --------------------------------------------------- *)

textedit_checks(zf, parts) ==
  LET content_types == parts["content_types_txt"]
      app_txt == parts["app_txt"]
      core_txt == parts["core_txt"]
      doc_txt == parts["doc_txt"]
      theme_txt == parts["theme_txt"]
      a1 == Hit(Start, In("/word/theme/theme1.xml", content_types)
                       /\ ~In("/word/styles.xml", content_types)
                       /\ ~In("/word/settings.xml", content_types)
                       /\ ~In("/word/fontTable.xml", content_types)
                       /\ ~In("/word/numbering.xml", content_types), 300,
                "Has theme but lacks styles/settings/fontTable/numbering (TextEdit pattern)")
      a2 == Hit(a1, StartsWith("<Properties", app_txt) /\ ~In("<Application>", app_txt), 300,
                "app.xml is empty <Properties> with no <Application> tag (TextEdit hallmark)")
      a3 == Hit(a2, In("<cp:coreProperties", core_txt) /\ Count("<dc:", core_txt) = 1
                    /\ ~In("<lastModifiedBy>", core_txt) /\ ~In("<revision>", core_txt), 200,
                "core.xml uses cp: prefix and only dc:creator (TextEdit serialization)")
      a4 == Hit(a3, In("xmlns:w=", doc_txt)
                    /\ (\A x \in {"xmlns:mc=", "xmlns:w14=", "xmlns:w15=", "xmlns:w16="} :
                          ~In(x, doc_txt))
                    /\ In("<w:rFonts w:ascii=\"Times\"", doc_txt), 200,
                "document.xml limited to base namespaces and hardcoded Times font")
      a5 == Hit(a4, In("name=\"Default Theme\"", theme_txt), 100,
                "Theme1.xml uses name='Default Theme' (TextEdit theme rewrite)")
      a6 == Hit(a5, ~In("/docProps/custom.xml", content_types)
                    /\ ~In("/customXml/", content_types)
                    /\ ~In("<Template>", app_txt), 100,
                "No customXml or extended properties (TextEdit metadata purge)")
  IN Result(a6)

(* ---- Microsoft Word confidence ------------------------------------------ *)

(* The python-docx [Content_Types].xml ordering heuristic: the last         *)
(* /docProps/ override comes before the first /word/ override.  A parse     *)
(* error of the raw text is caught by the except and gives no deduction.    *)
docprops_before_word(raw) ==
  LET root == fromstring(raw)
      (* for elem in root: the children of the root element *)
      overrides == SelectSeq(Tail(root.elems), LAMBDA f : "elem:Override" \in Matches[f])
      docprops == {i \in DOMAIN overrides : "PartName^/docProps/" \in Matches[overrides[i]]}
      word == {i \in DOMAIN overrides : "PartName^/word/" \in Matches[overrides[i]]}
  IN /\ root.kind = "Element"
     /\ \E i \in DOMAIN overrides : "PartName:/word/document.xml" \in Matches[overrides[i]]
     /\ docprops # {}
     /\ word # {}
     /\ \A i \in docprops : \A j \in word : i < j

word_checks(zf, parts, lo_score, gd_score, pg_score) ==
  LET theme_txt == parts["theme_txt"]
      font_txt == parts["font_txt"]
      styles_txt == parts["styles_txt"]
      a1 == Hit(Start, ApplicationHas(parts["app_xml"], "word"), 400,
                "Application tag indicates Microsoft Word")
      a2 == Hit(a1, In("xmlns:thm15", theme_txt), 150,
                "Theme includes thm15 namespace (common in Word)")
      a3 == Hit(a2, In("<a:sysClr", theme_txt), 100,
                "Theme uses <a:sysClr> (Windows system color mapping)")
      a4 == Hit(a3, In("<w:panose1", font_txt) \/ In("<w:sig", font_txt), 100,
                "Font table includes <w:panose1> / <w:sig> fingerprints (Word)")
      a5 == Hit(a4, In("Heading1|Heading2|Heading3", styles_txt), 80,
                "Heading1-3 style cascade present (Word defaults)")
      a6 == Hit(a5, lo_score < 400 /\ gd_score < 400 /\ pg_score < 400, 120,
                "No strong non-Word indicators (boosting Word confidence)")
      a7 == Hit(a6, docprops_before_word(parts["content_types_txt"]), -30,
                "Override order in [Content_Types].xml shows docProps before /word/document.xml (python-docx generation pattern; small deduction)")
  IN Result(a7)

(* ---- OnlyOffice signatures (used by the other-engine scorer) ------------ *)

onlyoffice_checks(doc_text, evidence) ==
  LET a0 == [score |-> 0, ev |-> evidence]
      a1 == Hit(a0, In("<w:tblCellSpacing[^>]*w:w=\"(\\d+)\" % 1134 in range(0, 10)", doc_text),
                200, "Table cell spacing -> doubled mm/twip conversion (OnlyOffice).")
      a2 == Hit(a1, Count("<w:tblLayout[^>]*w:type=\"fixed\"", doc_text) >= 3,
                200, "tables forced to fixed layout (OnlyOffice default).")
      a3 == Hit(a2, In("<w:tblLook[^>]*w:val=\"0[4-7][A-F0-9]{2}\"", doc_text),
                200, "Nonstandard <w:tblLook> bitmask (OnlyOffice bit flag composition).")
      a4 == Hit(a3, In("<w:tblW[^>]*>\\s*<w:tblStyle", doc_text),
                100, "<w:tblW> precedes <w:tblStyle> (OnlyOffice ordering).")
      a5 == Hit(a4, In("<w:tblBorders[^>]*>\\s*<w:tblLayout", doc_text),
                100, "<w:tblBorders> precedes <w:tblLayout> (OnlyOffice ordering).")
      a6 == Hit(a5, In("w:w=\"(\\d+)\" % 5 not in (0, 5) and % 10 != 0", doc_text),
                100, "Non-rounded twip - float->int mm rounding (OnlyOffice).")
      a7 == Hit(a6, In("<w:tblLayout", doc_text) /\ ~In("mc:Ignorable", doc_text),
                100, "tblLayout present but missing mc:Ignorable (OnlyOffice omission).")
      a8 == Hit(a7, In("<w:(tbl|tr|tc|p|r)PrChange", doc_text)
                    /\ ~In("<w:trackChange", doc_text),
                200, "Inline *PrChange blocks without trackChange (OnlyOffice-style revisions).")
      a9 == Hit(a8, In("<w:numId w:val=\"0\"", doc_text) /\ ~In("<w:abstractNumId", doc_text),
                100, "<w:numId w:val='0'> without abstractNum (OnlyOffice numbering map leak).")
      a10 == Hit(a9, In("<w:lvlOverride", doc_text) /\ ~In("<w:startOverride", doc_text),
                100, "<w:lvlOverride> without startOverride (OnlyOffice list export artifact).")
      a11 == Hit(a10, In("<w:headerReference", doc_text)
                      /\ ~In("<w:evenAndOddHeaders", doc_text),
                100, "Header refs but no evenAndOddHeaders - pre-v5 OnlyOffice schema.")
      a12 == Hit(a11, In("<w:sectPr", doc_text) /\ ~In("<w:titlePg", doc_text),
                100, "Sections present but missing titlePg - older OnlyOffice export (<v5).")
      a13 == Hit(a12, In("itemProps\\d+\\.xml", doc_text)
                      \/ In("(?i)(formid=|glossaryid=|jsaproject)", doc_text),
                200, "References to OForm/Glossary/JSA - OnlyOffice extensions.")
      a14 == Hit(a13, ~In("xmlns:wps", doc_text) /\ In("drawing", doc_text),
                100, "Missing wps/wpg drawing namespaces (OnlyOffice omission).")
  IN [score |-> Min(a14.score, 1000), ev |-> a14.ev]

(* ---- Word variants: Desktop vs Web -------------------------------------- *)

word_variants_checks(zf, parts) ==
  LET app_txt == parts["app_txt"]
      core_txt == parts["core_txt"]
      theme_txt == parts["theme_txt"]
      font_txt == parts["font_txt"]
      settings_txt == parts["settings_txt"]
      doc_txt == parts["doc_txt"]
      fragmented == Count("<w:r>", doc_txt) > 3 * Count("<w:p>", doc_txt)
      revision == In("<cp:revision>", core_txt)
      w1 == Hit(Start, In("Microsoft Word for the web", app_txt), 600,
                "<Application>Microsoft Word for the web</Application> detected")
      w2 == Hit(w1, In("Calibri", font_txt) /\ ~In("Aptos", font_txt), 150,
                "Legacy Calibri font (Word Web or pre-2024 Word)")
      w3 == Hit(w2, In("xmlns:thm15", theme_txt), 100,
                "Theme includes thm15 namespace (Word Web)")
      w4 == Hit(w3, fragmented, 150,
                "Highly fragmented <w:r> structure (Word for Web pattern)")
      w5 == Hit(w4, ~revision, 50, "No revision property (Word Web minimal metadata)")
      d1 == Hit(Start, In("Microsoft Office Word", app_txt), 600,
                "<Application>Microsoft Office Word</Application> detected")
      d2 == Hit(d1, In("Aptos", font_txt), 200,
                "Aptos/Aptos Display font (new Word 2024 default)")
      d3 == Hit(d2, In("w16du", theme_txt) \/ In("w16du", settings_txt), 150,
                "Modern WordML namespaces (Word 2023/2024 Desktop)")
      d4 == Hit(d3, ~fragmented, 50, "Compact run structure (Desktop Word)")
      d5 == Hit(d4, revision, 100, "Core properties include <cp:revision> (Desktop Word)")
  IN [score |-> [word_web |-> Min(w5.score, 1000), word_desktop |-> Min(d5.score, 1000)],
      ev |-> [word_web |-> w5.ev, word_desktop |-> d5.ev]]

(* ---- Final verdict logic ------------------------------------------------ *)

label(key) ==
  CASE key = "libreoffice" -> "LibreOffice"
    [] key = "google_docs" -> "Google Docs"
    [] key = "apple_pages" -> "Apple Pages"
    [] key = "word" -> "Microsoft Word"
    [] key = "pandoc" -> "Pandoc / programmatic"
    [] key = "wordpad" -> "WordPad"
    [] key = "textedit" -> "TextEdit"

(* The keys of the scores dict in insertion order, without "word". *)
non_word_keys == <<"libreoffice", "google_docs", "apple_pages", "pandoc", "wordpad", "textedit">>

(* the last key, in insertion order, that has the highest score *)
top_origin_of_last(scores) ==
  LET i == CHOOSE i \in DOMAIN non_word_keys :
             /\ \A j \in DOMAIN non_word_keys :
                  scores[non_word_keys[j]] <= scores[non_word_keys[i]]
             /\ \A j \in (i + 1)..Len(non_word_keys) :
                  scores[non_word_keys[j]] < scores[non_word_keys[i]]
  IN non_word_keys[i]

(* max(non_word, key=non_word.get): the first key, in insertion order, whose *)
(* score no other key exceeds.                                               *)
top_origin_of(scores) ==
  LET i == CHOOSE i \in DOMAIN non_word_keys :
             /\ \A j \in DOMAIN non_word_keys :
                  scores[non_word_keys[j]] <= scores[non_word_keys[i]]
             /\ \A j \in 1..(i - 1) : scores[non_word_keys[j]] < scores[non_word_keys[i]]
  IN non_word_keys[i]

(* choose_verdict with a strict first threshold *)
choose_verdict_strict(scores) ==
  LET top_origin == top_origin_of(scores)
      top_val == scores[top_origin]
      word_val == scores["word"]
  IN IF top_val > 700 THEN "Definitely " \o label(top_origin) \o " export"
     ELSE IF top_val >= 500 THEN "Likely " \o label(top_origin) \o " export or mixed"
     ELSE IF word_val >= 700 /\ top_val < 400 THEN "Pure Microsoft Word"
     ELSE IF word_val >= 500 /\ top_val < 500
          THEN "Probably Microsoft Word (minor artifacts present)"
     ELSE "Inconclusive / mixed"

(* choose_verdict letting a Word score above the top one win *)
choose_verdict_word_first(scores) ==
  LET top_origin == top_origin_of(scores)
      top_val == scores[top_origin]
      word_val == scores["word"]
  IN IF top_val >= 700 /\ top_val >= word_val
     THEN "Definitely " \o label(top_origin) \o " export"
     ELSE IF top_val >= 500 THEN "Likely " \o label(top_origin) \o " export or mixed"
     ELSE IF word_val >= 700 /\ top_val < 400 THEN "Pure Microsoft Word"
     ELSE IF word_val >= 500 /\ top_val < 500
          THEN "Probably Microsoft Word (minor artifacts present)"
     ELSE "Inconclusive / mixed"

(* choose_verdict with the fourth rule bounded by the low threshold *)
choose_verdict_narrow(scores) ==
  LET top_origin == top_origin_of(scores)
      top_val == scores[top_origin]
      word_val == scores["word"]
  IN IF top_val >= 700 THEN "Definitely " \o label(top_origin) \o " export"
     ELSE IF top_val >= 500 THEN "Likely " \o label(top_origin) \o " export or mixed"
     ELSE IF word_val >= 700 /\ top_val < 400 THEN "Pure Microsoft Word"
     ELSE IF word_val >= 500 /\ top_val < 400
          THEN "Probably Microsoft Word (minor artifacts present)"
     ELSE "Inconclusive / mixed"

choose_verdict(scores) ==
  LET top_origin == top_origin_of(scores)
      top_val == scores[top_origin]
      word_val == scores["word"]
  IN IF top_val >= 700 THEN "Definitely " \o label(top_origin) \o " export"
     ELSE IF top_val >= 500 THEN "Likely " \o label(top_origin) \o " export or mixed"
     ELSE IF word_val >= 700 /\ top_val < 400 THEN "Pure Microsoft Word"
     ELSE IF word_val >= 500 /\ top_val < 500
          THEN "Probably Microsoft Word (minor artifacts present)"
     ELSE "Inconclusive / mixed"

(* ---- Speculative checks -------------------------------------------------- *)

(* zf.namelist(): the entries in the order the archive stores them, taken   *)
(* here to be this order.                                                    *)
EntryOrder ==
  <<"[Content_Types].xml", "docProps/app.xml", "docProps/core.xml", "docProps/custom.xml",
    "word/document.xml", "word/styles.xml", "word/settings.xml", "word/webSettings.xml",
    "word/fontTable.xml", "word/theme/theme1.xml", "webextensions/taskpanes.xml",
    "customXml/contoso.sharepoint.com.xml">>

namelist(zf) == SelectSeq(EntryOrder, LAMBDA n : n \in DOMAIN zf)

NamePatterns ==
     ( "webextensions/taskpanes.xml" :> {"^webextensions/"} )
  @@ ( "customXml/contoso.sharepoint.com.xml" :> {"sharepoint.com"} )

NameHas(name, p) == name \in DOMAIN NamePatterns /\ p \in NamePatterns[name]

RECURSIVE wordaspect_names(_, _)
(* the loop over zf.namelist() *)
wordaspect_names(names, acc) ==
  IF names = <<>> THEN acc
  ELSE LET name == Head(names)
           a1 == Hit(acc, NameHas(name, "^webextensions/"), 300,
                     "Contains " \o name \o " (Word 365 Web add-in structure)")
           a2 == Hit(a1, NameHas(name, "sharepoint.com"), 500,
                     "References SharePoint URL in relationships: " \o name)
       IN wordaspect_names(Tail(names), a2)

check_speculative_wordaspect(zf) ==
  LET core == read_text_from_zip(zf, "docProps/core.xml")
      a1 == wordaspect_names(namelist(zf), Start)
      a2 == Hit(a1, In("https://.*sharepoint\\.com", core), 400,
                "SharePoint reference found in core properties")
      a3 == Hit(a2, In("Microsoft Office Word", core), 100,
                "Application tag suggests Office Online editor")
  IN Result(a3)

(* evidences.append((engine, text)) when cond, and scores[key] += w *)
Engine(acc, cond, key, w, engine, text) ==
  IF cond THEN [scores |-> [acc.scores EXCEPT ![key] = @ + w],
                evidences |-> Append(acc.evidences, <<engine, text>>)]
  ELSE acc

RECURSIVE TagAll(_, _)
(* [(engine, e) for e in ev] *)
TagAll(engine, ev) ==
  IF ev = <<>> THEN <<>> ELSE <<(<<engine, Head(ev)>>)>> \o TagAll(engine, Tail(ev))

check_speculative_lomarkeshare(xml_bundle) ==
  LET app == xml_bundle["app"]
      core == xml_bundle["core"]
      font == xml_bundle["font"]
      styles == xml_bundle["styles"]
      theme == xml_bundle["theme"]
      content == xml_bundle["content"]
      a0 == [scores |-> [wps |-> 0, onlyoffice |-> 0, abiword |-> 0, calligra |-> 0,
                         wordpad |-> 0, softmaker |-> 0, programmatic |-> 0],
             evidences |-> <<>>]
      (* content[500:] drops the opening of the document: its first fragment *)
      content_500 == IF content = <<>> THEN <<>> ELSE Tail(content)
      a1 == Engine(a0, \E x \in {"(?i)wps", "(?i)kingsoft", "(?i)wps office"} : In(x, app \o core),
                   "wps", 800, "WPS Office", "Application metadata contains WPS/Kingsoft signature")
      a2 == Engine(a1, In("schemas.wps.cn", app \o content \o styles),
                   "wps", 500, "WPS Office", "Contains Chinese WPS-specific XML namespace")
      a3 == Engine(a2, \E f \in {"SimSun", "KaiTi", "FangSong"} : In(f, font),
                   "wps", 200, "WPS Office", "CJK font families common in WPS Office")
      a4 == Engine(a3, In("(?i)abiword", app \o core),
                   "abiword", 800, "AbiWord", "Application tag or creator field mentions AbiWord")
      a5 == Engine(a4, ~In("<a:theme", theme) /\ In("<w:docDefaults", styles),
                   "abiword", 300, "AbiWord", "No theme.xml but includes simple docDefaults")
      a6 == Engine(a5, In("styleId=\"Normal\"", styles) /\ ~In("Heading1", styles),
                   "abiword", 100, "AbiWord", "Single 'Normal' style without headings (AbiWord pattern)")
      a7 == Engine(a6, In("(?i)calligra", app \o core \o content),
                   "calligra", 800, "Calligra Words", "Application metadata indicates Calligra Words")
      a8 == Engine(a7, ~In("<w:compatSetting", content) /\ In("(?i)koffice", app \o core),
                   "calligra", 200, "Calligra Words", "No compatSetting + legacy KOffice marker")
      a9 == Engine(a8, In("(?i)wordpad", app \o core),
                   "wordpad", 800, "WordPad", "Application tag indicates WordPad")
      a10 == Engine(a9, ~In("word/theme/theme1.xml", content)
                        /\ In("<w:styleId=\"Normal\"", styles)
                        /\ ~In("<w:style", content_500),
                   "wordpad", 300, "WordPad", "No theme and only a 'Normal' style (WordPad pattern)")
      a11 == Engine(a10, In("(?i)textmaker", app \o core \o content),
                   "softmaker", 800, "TextMaker", "Application metadata includes TextMaker")
      a12 == Engine(a11, In("SoftMaker Office", core \o content),
                   "softmaker", 600, "TextMaker", "Custom props mention SoftMaker Office")
      a13 == Engine(a12, \E x \in {"(?i)pandoc", "(?i)docx4j", "(?i)aspose", "(?i)poi",
                                   "(?i)python-docx"} : In(x, app \o core \o content),
                   "programmatic", 800, "Programmatic", "Metadata references Pandoc/docx4j/Aspose")
      a14 == Engine(a13, ~(\E f \in {"Application", "AppVersion", "Company"} :
                             In(f, app \o core \o content)),
                   "programmatic", 200, "Programmatic", "No app metadata tags (generated by library)")
      a15 == Engine(a14, ~In("<w:themeFontLang", styles) /\ In("<w:lang", content),
                   "programmatic", 150, "Programmatic",
                   "Basic language tags without theme references (minimal DOCX structure)")
      a16 == Engine(a15, In("(?i)onlyoffice", app \o core \o content),
                   "onlyoffice", 800, "OnlyOffice", "Application metadata references OnlyOffice")
      a17 == Engine(a16, In("onlyoffice.com/schema", content),
                   "onlyoffice", 400, "OnlyOffice", "Contains OnlyOffice custom schema URI")
      a18 == Engine(a17, ~In("<w:latentStyles", styles),
                   "onlyoffice", 150, "OnlyOffice",
                   "Missing latentStyles section (common in OnlyOffice exports)")
      oo == onlyoffice_checks(content, <<>>)
      a19 == IF oo.score >= 200
             THEN [scores |-> [a18.scores EXCEPT
                                 !["onlyoffice"] = Min(1000, @ + oo.score)],
                   evidences |-> a18.evidences \o TagAll("OnlyOffice", oo.ev)]
             ELSE a18
  IN [scores |-> [k \in DOMAIN a19.scores |-> Min(a19.scores[k], 1000)],
      evidences |-> a19.evidences]

(* ---- the packages analysed ----------------------------------------------- *)

(* An archive is a function from the names of its entries to their texts.   *)

WordDesktop ==
     ( "[Content_Types].xml" :>
         << "<Types xmlns=\".../content-types\">",
            "<Default Extension=\"xml\" ContentType=\"application/xml\"/>",
            "<Override PartName=\"/word/document.xml\"/>",
            "<Override PartName=\"/word/styles.xml\"/>",
            "<Override PartName=\"/word/settings.xml\"/>",
            "<Override PartName=\"/word/fontTable.xml\"/>",
            "<Override PartName=\"/word/theme/theme1.xml\"/>",
            "<Override PartName=\"/docProps/core.xml\"/>",
            "<Override PartName=\"/docProps/app.xml\"/>" >> )
  @@ ( "docProps/app.xml" :>
         << "<?xml version=\"1.0\"?><Properties xmlns=\".../extended-properties\">",
            "<Template>Normal.dotm</Template>",
            "<Application>Microsoft Office Word</Application>",
            "<AppVersion>16.0000</AppVersion>" >> )
  @@ ( "docProps/core.xml" :>
         << "<cp:coreProperties xmlns:cp=\"...\" xmlns:dc=\"...\">",
            "<dc:title>Report</dc:title>",
            "<dc:creator>Alice</dc:creator>",
            "<cp:lastModifiedBy>Bob</cp:lastModifiedBy>",
            "<cp:revision>2</cp:revision>" >> )
  @@ ( "word/document.xml" :>
         << "<w:document xmlns:wpc=\"...\" xmlns:mc=\"...\" xmlns:r=\"...\" xmlns:w=\"...\" xmlns:w14=\"...\" mc:Ignorable=\"w14\">",
            "<w:pPr><w:spacing w:after=\"160\"/></w:pPr>",
            "<w:p w:rsidR=\"00A1\"><w:r><w:t>text</w:t></w:r></w:p>",
            "<w:sectPr><w:pgSz w:w=\"12240\"/></w:sectPr>" >> )
  @@ ( "word/styles.xml" :>
         << "<w:styles xmlns:w=\".../main\">",
            "<w:docDefaults>",
            "<w:latentStyles w:count=\"376\"> ... </w:latentStyles>",
            "<w:style w:styleId=\"Normal\">",
            "<w:style w:styleId=\"Heading1\">" >> )
  @@ ( "word/settings.xml" :> << "<w:settings xmlns:w=\".../main\">" >> )
  @@ ( "word/webSettings.xml" :>
         << "<w:webSettings xmlns:w=\".../main\">", "<w:optimizeForBrowser/>" >> )
  @@ ( "word/fontTable.xml" :>
         << "<w:fonts xmlns:w=\".../main\">",
            "<w:font w:name=\"Aptos\">",
            "<w:panose1 w:val=\"020F0502020204030204\"/>",
            "<w:sig w:usb0=\"E4002EFF\"/>" >> )
  @@ ( "word/theme/theme1.xml" :>
         << "<a:theme xmlns:a=\"...\" name=\"Office Theme\">",
            "xmlns:thm15=\".../thememl/2012/main\"",
            "<a:sysClr val=\"windowText\" lastClr=\"000000\"/>",
            "<a:srgbClr val=\"0E2841\"/>",
            "<a:objectDefaults>",
            "<a:extLst>" >> )

LibreOffice ==
     ( "[Content_Types].xml" :>
         << "<Types xmlns=\".../content-types\">",
            "<Default Extension=\"xml\" ContentType=\"application/xml\"/>",
            "<Default Extension=\"png\" ContentType=\"image/png\"/>",
            "<Override PartName=\"/word/document.xml\"/>",
            "<Override PartName=\"/word/styles.xml\"/>",
            "<Override PartName=\"/word/fontTable.xml\"/>",
            "<Override PartName=\"/word/settings.xml\"/>",
            "<Override PartName=\"/docProps/app.xml\"/>",
            "<Override PartName=\"/docProps/core.xml\"/>" >> )
  @@ ( "docProps/app.xml" :>
         << "<?xml version=\"1.0\"?><Properties xmlns=\".../extended-properties\">",
            "<TotalTime>0</TotalTime>",
            "<Application>LibreOffice/7.3.7.2$Linux_X86_64</Application>" >> )
  @@ ( "docProps/core.xml" :>
         << "<cp:coreProperties xmlns:cp=\"...\" xmlns:dc=\"...\">",
            "<dc:creator>Alice</dc:creator>",
            "<cp:revision>2</cp:revision>" >> )
  @@ ( "word/document.xml" :>
         << "<w:document xmlns:r=\"...\" xmlns:w=\".../main\">",
            "<w:pPr><w:pStyle w:val=\"BodyText\"/></w:pPr>",
            "<w:p><w:r><w:t>text</w:t></w:r></w:p>",
            "<w:formProt w:val=\"false\"/>" >> )
  @@ ( "word/styles.xml" :>
         << "<w:styles xmlns:w=\".../main\">",
            "<w:docDefaults>",
            "<w:rFonts w:ascii=\"Liberation Serif\"/>",
            "<w:style w:styleId=\"Standard\">" >> )
  @@ ( "word/settings.xml" :>
         << "<w:settings xmlns:w=\".../main\">", "<w:autoHyphenation w:val=\"true\"/>" >> )
  @@ ( "word/fontTable.xml" :>
         << "<w:fonts xmlns:w=\".../main\">",
            "<w:font w:name=\"Liberation Serif\">",
            "<w:font w:name=\"Noto Sans\">" >> )

GoogleDocs ==
     ( "[Content_Types].xml" :>
         << "<Types xmlns=\".../content-types\">",
            "<Default Extension=\"xml\" ContentType=\"application/xml\"/>",
            "<Override PartName=\"/word/document.xml\"/>",
            "<Override PartName=\"/word/styles.xml\"/>",
            "<Override PartName=\"/word/settings.xml\"/>",
            "<Override PartName=\"/word/fontTable.xml\"/>",
            "<Override PartName=\"/word/theme/theme1.xml\"/>" >> )
  @@ ( "word/document.xml" :>
         << "<w:document xmlns:wpc=\"...\" xmlns:mc=\"...\" xmlns:r=\"...\" xmlns:w=\"...\" xmlns:w14=\"...\" mc:Ignorable=\"w14\">",
            "<w:pPr><w:spacing w:after=\"160\"/></w:pPr>",
            "<w:p w:rsidR=\"00A1\"><w:r><w:t>text</w:t></w:r></w:p>" >> )
  @@ ( "word/styles.xml" :>
         << "<w:styles xmlns:w=\".../main\">",
            "<w:semiHidden w:val=\"1\"/>",
            "<w:tblW w:w=\"0.0\" w:type=\"auto\"/>",
            "<w:color w:val=\"1a73e8\"/>",
            "<w:style w:styleId=\"Heading1\">" >> )
  @@ ( "word/settings.xml" :> << "<w:settings xmlns:w=\".../main\">" >> )
  @@ ( "word/fontTable.xml" :>
         << "<w:fonts xmlns:w=\".../main\">",
            "<w:font w:name=\"Play\">",
            "<w:font w:name=\"Roboto\">" >> )
  @@ ( "word/theme/theme1.xml" :>
         << "<a:theme xmlns:a=\"...\" name=\"Office Theme\">",
            "<a:sysClr val=\"windowText\" lastClr=\"000000\"/>",
            "<a:srgbClr val=\"0E2841\"/>" >> )

ApplePages ==
     ( "[Content_Types].xml" :>
         << "<Types xmlns=\".../content-types\">",
            "<Override PartName=\"/word/document.xml\"/>",
            "<Override PartName=\"/word/styles.xml\"/>",
            "<Override PartName=\"/word/settings.xml\"/>",
            "<Override PartName=\"/word/fontTable.xml\"/>",
            "<Override PartName=\"/word/theme/theme1.xml\"/>",
            "<Override PartName=\"/docProps/core.xml\"/>",
            "<Override PartName=\"/docProps/app.xml\"/>" >> )
  @@ ( "docProps/app.xml" :>
         << "<?xml version=\"1.0\"?><Properties xmlns=\".../extended-properties\">",
            "<Application>Pages</Application>" >> )
  @@ ( "docProps/core.xml" :>
         << "<cp:coreProperties xmlns:cp=\"...\" xmlns:dc=\"...\">",
            "<dc:creator>Alice</dc:creator>" >> )
  @@ ( "word/document.xml" :>
         << "<w:document xmlns:wpc=\"...\" xmlns:mc=\"...\" xmlns:r=\"...\" xmlns:w=\"...\" xmlns:w14=\"...\" mc:Ignorable=\"w14\">",
            "<w:p><w:r><w:t>text</w:t></w:r></w:p>" >> )
  @@ ( "word/styles.xml" :>
         << "<w:styles xmlns:w=\".../main\">", "<w:style w:styleId=\"Normal\">" >> )
  @@ ( "word/settings.xml" :> << "<w:settings xmlns:w=\".../main\">" >> )
  @@ ( "word/fontTable.xml" :>
         << "<w:fonts xmlns:w=\".../main\">", "<w:panose1 w:val=\"020F0502020204030204\"/>" >> )
  @@ ( "word/theme/theme1.xml" :>
         << "<a:theme xmlns:a=\"...\" name=\"Office Theme\">",
            "<a:srgbClr val=\"0E2841\"/>",
            "<a:latin typeface=\"Helvetica Neue\"/>" >> )

Pandoc ==
     ( "[Content_Types].xml" :>
         << "<Types xmlns=\".../content-types\">",
            "<Default Extension=\"xml\" ContentType=\"application/xml\"/>",
            "<Override PartName=\"/word/document.xml\"/>",
            "<Override PartName=\"/word/styles.xml\"/>",
            "<Override PartName=\"/word/settings.xml\"/>",
            "<Override PartName=\"/word/fontTable.xml\"/>",
            "<Override PartName=\"/word/theme/theme1.xml\"/>",
            "<Override PartName=\"/docProps/core.xml\"/>",
            "<Override PartName=\"/docProps/app.xml\"/>" >> )
  @@ ( "docProps/app.xml" :>
         << "<?xml version=\"1.0\"?><Properties xmlns=\".../extended-properties\">",
            "<TotalTime>0</TotalTime>" >> )
  @@ ( "docProps/core.xml" :>
         << "<cp:coreProperties xmlns:cp=\"...\" xmlns:dc=\"...\">",
            "<dc:title>Report</dc:title>",
            "<dc:creator/>" >> )
  @@ ( "word/document.xml" :>
         << "<w:document xmlns:r=\"...\" xmlns:w=\".../main\">",
            "<w:pPr><w:pStyle w:val=\"BodyText\"/></w:pPr>",
            "<w:p><w:r><w:t>text</w:t></w:r></w:p>" >> )
  @@ ( "word/styles.xml" :>
         << "<w:styles xmlns:w=\".../main\">",
            "<w:style w:styleId=\"Normal\">",
            "<w:style w:styleId=\"Heading1\">",
            "<w:style w:styleId=\"SourceCode\">",
            "<w:style w:styleId=\"KeywordTok\">" >> )
  @@ ( "word/settings.xml" :> << "<w:settings xmlns:w=\".../main\">" >> )
  @@ ( "word/webSettings.xml" :>
         << "<w:webSettings xmlns:w=\".../main\">", "<w:doNotSaveAsSingleFile/>" >> )
  @@ ( "word/fontTable.xml" :>
         << "<w:fonts xmlns:w=\".../main\">",
            "<w:font w:name=\"Calibri\">",
            "<w:font w:name=\"Cambria\">" >> )
  @@ ( "word/theme/theme1.xml" :>
         << "<a:theme xmlns:a=\"...\" name=\"Office Theme\">",
            "<a:srgbClr val=\"4F81BD\"/>" >> )

PythonDocx ==
     ( "[Content_Types].xml" :>
         << "<Types xmlns=\".../content-types\">",
            "<Default Extension=\"xml\" ContentType=\"application/xml\"/>",
            "<Override PartName=\"/docProps/app.xml\"/>",
            "<Override PartName=\"/docProps/core.xml\"/>",
            "<Override PartName=\"/word/document.xml\"/>",
            "<Override PartName=\"/word/fontTable.xml\"/>",
            "<Override PartName=\"/word/settings.xml\"/>",
            "<Override PartName=\"/word/styles.xml\"/>",
            "<Override PartName=\"/word/theme/theme1.xml\"/>" >> )
  @@ ( "docProps/app.xml" :>
         << "<?xml version=\"1.0\"?><Properties xmlns=\".../extended-properties\">",
            "<Template>Normal.dotm</Template>",
            "<Application>Microsoft Office Word</Application>",
            "<AppVersion>16.0000</AppVersion>" >> )
  @@ ( "docProps/core.xml" :>
         << "<cp:coreProperties xmlns:cp=\"...\" xmlns:dc=\"...\">",
            "<dc:title>Report</dc:title>",
            "<dc:creator>Alice</dc:creator>",
            "<cp:lastModifiedBy>Bob</cp:lastModifiedBy>",
            "<cp:revision>2</cp:revision>" >> )
  @@ ( "word/document.xml" :>
         << "<w:document xmlns:wpc=\"...\" xmlns:mc=\"...\" xmlns:r=\"...\" xmlns:w=\"...\" xmlns:w14=\"...\" mc:Ignorable=\"w14\">",
            "<w:p><w:r><w:t>text</w:t></w:r></w:p>",
            "<w:sectPr><w:pgSz w:w=\"12240\"/></w:sectPr>" >> )
  @@ ( "word/styles.xml" :>
         << "<w:styles xmlns:w=\".../main\">",
            "<w:docDefaults>",
            "<w:latentStyles w:count=\"376\"> ... </w:latentStyles>",
            "<w:style w:styleId=\"Normal\">",
            "<w:style w:styleId=\"Heading1\">" >> )
  @@ ( "word/settings.xml" :> << "<w:settings xmlns:w=\".../main\">" >> )
  @@ ( "word/webSettings.xml" :>
         << "<w:webSettings xmlns:w=\".../main\">", "<w:optimizeForBrowser/>" >> )
  @@ ( "word/fontTable.xml" :>
         << "<w:fonts xmlns:w=\".../main\">",
            "<w:font w:name=\"Calibri\">",
            "<w:font w:name=\"Cambria Math\">",
            "<w:panose1 w:val=\"020F0502020204030204\"/>" >> )
  @@ ( "word/theme/theme1.xml" :>
         << "<a:theme xmlns:a=\"...\" name=\"Office Theme\">",
            "<a:sysClr val=\"windowText\" lastClr=\"000000\"/>",
            "<a:srgbClr val=\"4F81BD\"/>",
            "<a:objectDefaults>",
            "<a:extLst>" >> )

WordPad ==
     ( "[Content_Types].xml" :>
         << "<Types xmlns=\".../content-types\">",
            "<Default Extension=\"xml\" ContentType=\"application/xml\"/>",
            "<Override PartName=\"/word/document.xml\"/>",
            "<Override PartName=\"/word/styles.xml\"/>" >> )
  @@ ( "word/document.xml" :>
         << "<w:document xmlns:w=\".../main\">",
            "<w:p><w:r><w:t>text</w:t></w:r></w:p>" >> )
  @@ ( "word/styles.xml" :>
         << "<w:styles xmlns:w=\".../main\">", "<w:style w:styleId=\"Normal\">" >> )

TextEdit ==
     ( "[Content_Types].xml" :>
         << "<Types xmlns=\".../content-types\">",
            "<Override PartName=\"/word/document.xml\"/>",
            "<Override PartName=\"/word/theme/theme1.xml\"/>",
            "<Override PartName=\"/docProps/core.xml\"/>",
            "<Override PartName=\"/docProps/app.xml\"/>" >> )
  @@ ( "docProps/app.xml" :> << "<Properties xmlns=\".../extended-properties\">" >> )
  @@ ( "docProps/core.xml" :>
         << "<cp:coreProperties xmlns:cp=\"...\" xmlns:dc=\"...\">",
            "<dc:creator>Alice</dc:creator>" >> )
  @@ ( "word/document.xml" :>
         << "<w:document xmlns:r=\"...\" xmlns:w=\".../main\">",
            "<w:rFonts w:ascii=\"Times\"/>",
            "<w:p><w:r><w:t>text</w:t></w:r></w:p>" >> )
  @@ ( "word/theme/theme1.xml" :>
         << "<a:theme xmlns:a=\"...\" name=\"Default Theme\">",
            "<a:srgbClr val=\"0E2841\"/>" >> )

(* a minimal package written by a converter on macOS: Helvetica Neue in the *)
(* theme, the properties listed first in the manifest                       *)
MinimalMac ==
     ( "[Content_Types].xml" :>
         << "<Types xmlns=\".../content-types\">",
            "<Override PartName=\"/docProps/core.xml\"/>",
            "<Default Extension=\"xml\" ContentType=\"application/xml\"/>",
            "<Override PartName=\"/word/document.xml\"/>",
            "<Override PartName=\"/word/styles.xml\"/>" >> )
  @@ ( "word/document.xml" :>
         << "<w:document xmlns:w=\".../main\">",
            "<w:p><w:r><w:t>text</w:t></w:r></w:p>" >> )
  @@ ( "word/styles.xml" :>
         << "<w:styles xmlns:w=\".../main\">", "<w:style w:styleId=\"Normal\">" >> )
  @@ ( "word/theme/theme1.xml" :>
         << "<a:theme xmlns:a=\"...\" name=\"Office Theme\">",
            "<a:latin typeface=\"Helvetica Neue\"/>" >> )

(* a ZIP archive with no entry *)
EmptyArchive == << >>

Profiles ==
  {WordDesktop, LibreOffice, GoogleDocs, ApplePages, Pandoc, PythonDocx, WordPad, TextEdit,
   MinimalMac, EmptyArchive}

(* Packages near the samples: an edit adds a fragment to the end of an entry *)
(* or removes it ("toggle"), puts a fragment right after the opening of an   *)
(* entry whose order the code reads ("front"), changes the opening of an     *)
(* entry ("open"), leaves an entry with no byte ("empty") or removes it      *)
(* ("drop").  Adding the fragment Bad leaves an unclosed tag in the entry.   *)
(* An edit of an entry the archive lacks creates it.                         *)

MaxEdits == 1

OrderedEntries == {"docProps/app.xml", "[Content_Types].xml"}

Edits ==
  UNION { {<<"toggle", n, f>> : f \in FragmentsOf[n] \cup {Bad}} : n \in DOMAIN FragmentsOf }
  \cup UNION { {<<"front", n, f>> : f \in FragmentsOf[n]} : n \in OrderedEntries }
  \cup UNION { {<<"open", n, Openings[n][i]>> : i \in DOMAIN Openings[n]} : n \in DOMAIN Openings }
  \cup {<<"empty", n>> : n \in DOMAIN FragmentsOf}
  \cup {<<"drop", n>> : n \in DOMAIN FragmentsOf}

Without(txt, f) == SelectSeq(txt, LAMBDA g : g # f)

Apply(e, a) ==
  LET n == e[2]
      txt == IF n \in DOMAIN a /\ a[n] # << >> THEN a[n] ELSE <<Openings[n][1]>>
  IN CASE e[1] = "toggle" ->
            (n :> (IF \E i \in DOMAIN txt : txt[i] = e[3]
                   THEN Without(txt, e[3]) ELSE Append(txt, e[3]))) @@ a
       [] e[1] = "front" -> (n :> (<<Head(txt), e[3]>> \o Without(Tail(txt), e[3]))) @@ a
       [] e[1] = "open" -> (n :> (<<e[3]>> \o Tail(txt))) @@ a
       [] e[1] = "empty" -> (n :> << >>) @@ a
       [] e[1] = "drop" -> [m \in (DOMAIN a) \ {n} |-> a[m]]

RECURSIVE EditedBy(_, _, _)
(* the archives at most k edits of E away from those of A *)
EditedBy(A, E, k) ==
  IF k = 0 THEN A
  ELSE LET B == EditedBy(A, E, k - 1) IN B \cup {Apply(e, a) : e \in E, a \in B}

Edited(A, k) == EditedBy(A, Edits, k)

(* What the path given on the command line names. *)
Files ==
  {[kind |-> "missing"], [kind |-> "not a zip"], [kind |-> "directory"]}
  \cup {[kind |-> "zip", zf |-> a] : a \in Edited(Profiles, MaxEdits)}

(* ---- the state ------------------------------------------------------------ *)

VARIABLES
  file,      \* what args.file names
  pc,        \* the statement of main / score_docx to execute next
  zf,        \* the open ZipFile
  parts,     \* score_docx's parts dict
  locals,    \* score_docx's other local variables
  result,    \* the dict score_docx returned to main
  exc,       \* the exception propagating out of score_docx
  exit,      \* how main ended
  twin,      \* the archive a second run of the program is given, if any
  previous   \* what the first run left, once the second has started

vars == <<file, pc, zf, parts, locals, result, exc, exit, twin, previous>>

NoLocals ==
  [lo |-> None, gd |-> None, pg |-> None, pd |-> None, wd |-> None,
   word_variant |-> None, wp |-> None, te |-> None,
   scores |-> None, verdict |-> None, evidence |-> None, taint_like |-> None,
   wordweb |-> None, lo_extras |-> None]

(* the start of main *)
Started ==
  /\ pc = "ZipFile"
  /\ zf = None
  /\ parts = None
  /\ locals = NoLocals
  /\ result = None
  /\ exc = None
  /\ exit = None

Init ==
  /\ file \in Files
  /\ Started
  /\ twin = None
  /\ previous = None

(* ---- score_docx ----------------------------------------------------------- *)

FileNotFoundError == [kind |-> "FileNotFoundError"]

BadZipFile == [kind |-> "BadZipFile"]

IsADirectoryError == [kind |-> "IsADirectoryError"]

(* zipfile.ZipFile(path) taking what it cannot read for an archive with no *)
(* entry                                                                    *)
ZipFile_lenient ==
  /\ pc = "ZipFile"
  /\ zf' = (IF file.kind = "zip" THEN file.zf ELSE << >>)
  /\ pc' = "parts"
  /\ exc' = exc
  /\ UNCHANGED <<twin, previous, file, parts, locals, result, exit>>

(* with zipfile.ZipFile(path) as zf *)
ZipFile ==
  /\ pc = "ZipFile"
  /\ IF file.kind = "zip"
     THEN /\ zf' = file.zf
          /\ pc' = "parts"
          /\ exc' = exc
     ELSE /\ exc' = CASE file.kind = "missing" -> FileNotFoundError
                      [] file.kind = "directory" -> IsADirectoryError
                      [] OTHER -> BadZipFile
          /\ pc' = "raised"
          /\ zf' = zf
  /\ UNCHANGED <<twin, previous, file, parts, locals, result, exit>>

XmlEntries ==
  <<"docProps/app.xml", "word/fontTable.xml", "word/document.xml", "word/styles.xml",
    "word/settings.xml", "word/theme/theme1.xml">>

(* the parts dict; a ParseError of a read_xml_from_zip call is not caught *)
BuildParts ==
  /\ pc = "parts"
  /\ IF \E i \in DOMAIN XmlEntries : read_xml_from_zip(zf, XmlEntries[i]) = ParseError
     THEN /\ exc' = ParseError
          /\ pc' = "raised"
          /\ parts' = parts
     ELSE /\ parts' =
               [app_xml |-> read_xml_from_zip(zf, "docProps/app.xml"),
                font_xml |-> read_xml_from_zip(zf, "word/fontTable.xml"),
                doc_xml |-> read_xml_from_zip(zf, "word/document.xml"),
                styles_xml |-> read_xml_from_zip(zf, "word/styles.xml"),
                settings_xml |-> read_xml_from_zip(zf, "word/settings.xml"),
                theme_xml |-> read_xml_from_zip(zf, "word/theme/theme1.xml"),
                content_types_txt |-> read_text_from_zip(zf, "[Content_Types].xml"),
                custom_props_txt |-> read_text_from_zip(zf, "docProps/custom.xml"),
                core_txt |-> read_text_from_zip(zf, "docProps/core.xml"),
                app_txt |-> read_text_from_zip(zf, "docProps/app.xml"),
                font_txt |-> read_text_from_zip(zf, "word/fontTable.xml"),
                doc_txt |-> read_text_from_zip(zf, "word/document.xml"),
                styles_txt |-> read_text_from_zip(zf, "word/styles.xml"),
                settings_txt |-> read_text_from_zip(zf, "word/settings.xml"),
                theme_txt |-> read_text_from_zip(zf, "word/theme/theme1.xml")]
          /\ pc' = "lo_checks"
          /\ exc' = exc
  /\ UNCHANGED <<twin, previous, file, zf, locals, result, exit>>

(* one assignment of score_docx: at `at`, set the local `name`, go to `to` *)
Assign(at, name, value, to) ==
  /\ pc = at
  /\ locals' = [locals EXCEPT ![name] = value]
  /\ pc' = to
  /\ UNCHANGED <<twin, previous, file, zf, parts, result, exc, exit>>

LoChecks == Assign("lo_checks", "lo", lo_checks(zf, parts), "gdocs_checks")

GdocsChecks == Assign("gdocs_checks", "gd", gdocs_checks(zf, parts), "pages_checks")

PagesChecks == Assign("pages_checks", "pg", pages_checks(zf, parts), "pandoc_checks")

PandocChecks == Assign("pandoc_checks", "pd", pandoc_checks(zf, parts), "word_checks")

WordChecks ==
  Assign("word_checks", "wd",
         word_checks(zf, parts, locals.lo.score, locals.gd.score, locals.pg.score),
         "word_variants_checks")

WordVariantsChecks ==
  Assign("word_variants_checks", "word_variant", word_variants_checks(zf, parts),
         "wordpad_checks")

WordpadChecks == Assign("wordpad_checks", "wp", wordpad_checks(zf, parts), "textedit_checks")

TexteditChecks == Assign("textedit_checks", "te", textedit_checks(zf, parts), "scores")

(* the scores dict with the Word score raised to the desktop variant's *)
scores_of_with_variant(l) ==
  [word |-> IF l.word_variant.score.word_desktop > l.wd.score
            THEN l.word_variant.score.word_desktop ELSE l.wd.score,
   libreoffice |-> l.lo.score, google_docs |-> l.gd.score,
   apple_pages |-> l.pg.score, pandoc |-> l.pd.score, wordpad |-> l.wp.score,
   textedit |-> l.te.score]

(* the scores dict *)
scores_of(l) ==
  [word |-> l.wd.score, libreoffice |-> l.lo.score, google_docs |-> l.gd.score,
   apple_pages |-> l.pg.score, pandoc |-> l.pd.score, wordpad |-> l.wp.score,
   textedit |-> l.te.score]

Scores == Assign("scores", "scores", scores_of(locals), "choose_verdict")

ChooseVerdict == Assign("choose_verdict", "verdict", choose_verdict(locals.scores), "evidence")

(* the evidence dict built on lists that outlive a run *)
evidence_of_accumulating(l) ==
  LET kept(k) == IF previous = None THEN <<>> ELSE previous.locals.evidence[k]
  IN [word |-> kept("word") \o l.wd.ev, libreoffice |-> kept("libreoffice") \o l.lo.ev,
      google_docs |-> kept("google_docs") \o l.gd.ev,
      apple_pages |-> kept("apple_pages") \o l.pg.ev, pandoc |-> kept("pandoc") \o l.pd.ev,
      wordpad |-> kept("wordpad") \o l.wp.ev, textedit |-> kept("textedit") \o l.te.ev]

(* the evidence dict *)
evidence_of(l) ==
  [word |-> l.wd.ev, libreoffice |-> l.lo.ev, google_docs |-> l.gd.ev,
   apple_pages |-> l.pg.ev, pandoc |-> l.pd.ev, wordpad |-> l.wp.ev, textedit |-> l.te.ev]

Evidence == Assign("evidence", "evidence", evidence_of(locals), "taint_like")

Max(S) == CHOOSE x \in S : \A y \in S : y <= x

(* the lead of the highest of the four scores over the next one *)
taint_like_of_margin(l) ==
  LET four == <<l.lo.score, l.gd.score, l.pg.score, l.pd.score>>
      top == CHOOSE i \in 1..4 : \A j \in 1..4 : four[j] <= four[i]
  IN four[top] - Max({four[j] : j \in (1..4) \ {top}})

(* taint_like = max(lo_score, gd_score, pg_score, pd_score) *)
taint_like_of(l) == Max({l.lo.score, l.gd.score, l.pg.score, l.pd.score})

Taint == Assign("taint_like", "taint_like", taint_like_of(locals), "wordaspect")

SpeculativeWordaspect ==
  Assign("wordaspect", "wordweb", check_speculative_wordaspect(zf), "lomarkeshare")

SpeculativeLomarkeshare ==
  Assign("lomarkeshare", "lo_extras",
         check_speculative_lomarkeshare(
           [app |-> parts["app_txt"], core |-> parts["core_txt"], font |-> parts["font_txt"],
            styles |-> parts["styles_txt"], theme |-> parts["theme_txt"],
            content |-> parts["doc_txt"]]),
         "return")

(* the dict score_docx returns *)
report_of(l) ==
  [scores |-> l.scores,
   verdict |-> l.verdict,
   taint |-> l.taint_like,
   evidence |-> l.evidence,
   word_variants |-> [scores |-> l.word_variant.score, evidence |-> l.word_variant.ev],
   speculative |->
     [word_web |-> [score |-> l.wordweb.score, evidence |-> l.wordweb.ev],
      other_engines |-> [scores |-> l.lo_extras.scores, evidence |-> l.lo_extras.evidences]]]

Return ==
  /\ pc = "return"
  /\ result' = report_of(locals)
  /\ pc' = "returned"
  /\ UNCHANGED <<twin, previous, file, zf, parts, locals, exc, exit>>

(* ---- summarize_provenance --------------------------------------------------- *)

(* the sentence summarize_provenance adds for a likely variant *)
VariantLine(likely_variant) ==
  "Within Microsoft Word, this document most closely matches **"
    \o likely_variant \o "** patterns."

(* The lines of the summary paragraph main prints; likely_variant is the    *)
(* sequence of no name (None in the code) or one.                           *)
summarize_provenance(res) ==
  LET verdict == res.verdict
      word_variants == res.word_variants.scores
      likely_variant ==
        IF word_variants.word_web > word_variants.word_desktop
        THEN <<"Word for the Web">>
        ELSE IF word_variants.word_desktop > 0 THEN <<"Word Desktop">> ELSE <<>>
  IN <<"Overall verdict: " \o verdict \o ".">>
       \o [i \in DOMAIN likely_variant |-> VariantLine(likely_variant[i])]
       \o <<"Heuristics examined include font defaults, XML namespaces, and application metadata.">>

(* ---- main ----------------------------------------------------------------- *)

(* the except clauses of main; any other exception ends main with a traceback *)
Except ==
  /\ pc = "raised"
  /\ exit' = CASE exc = FileNotFoundError -> [kind |-> "Error: file not found"]
               [] exc = BadZipFile -> [kind |-> "Error: not a valid DOCX file"]
               [] OTHER -> [kind |-> "Traceback: " \o exc.kind]
  /\ pc' = "exited"
  /\ UNCHANGED <<twin, previous, file, zf, parts, locals, result, exc>>

Printed == [kind |-> "printed"]

(* main prints the report *)
Report ==
  /\ pc = "returned"
  /\ exit' = Printed
  /\ pc' = "exited"
  /\ UNCHANGED <<twin, previous, file, zf, parts, locals, result, exc>>

Next ==
  \/ ZipFile
  \/ BuildParts
  \/ LoChecks
  \/ GdocsChecks
  \/ PagesChecks
  \/ PandocChecks
  \/ WordChecks
  \/ WordVariantsChecks
  \/ WordpadChecks
  \/ TexteditChecks
  \/ Scores
  \/ ChooseVerdict
  \/ Evidence
  \/ Taint
  \/ SpeculativeWordaspect
  \/ SpeculativeLomarkeshare
  \/ Return
  \/ Except
  \/ Report

Spec == Init /\ [][Next]_vars

(* ---- choose_verdict on its own -------------------------------------------- *)

(* The scores dicts choose_verdict is applied to: every origin at one of    *)
(* the values around the thresholds of the cascade, at most MaxNonZero of   *)
(* them other than 0, and the same with the -0.3 word_checks can return.    *)

MaxNonZero == 3

ScoreKeys ==
  {"word", "libreoffice", "google_docs", "apple_pages", "pandoc", "wordpad", "textedit"}

Grid == {300, 399, 400, 499, 500, 699, 700, 1000}

(* the scores dict with the scores f of the origins of S, 0 for the others *)
ScoreBoard(S, f) == [k \in ScoreKeys |-> IF k \in S THEN f[k] ELSE 0]

InitVerdict ==
  /\ file = None
  /\ pc = "choose_verdict"
  /\ zf = None
  /\ parts = None
  /\ \E S \in SUBSET ScoreKeys :
       /\ Cardinality(S) <= MaxNonZero
       /\ \E f \in [S -> Grid] :
            \E b \in {ScoreBoard(S, f), [ScoreBoard(S, f) EXCEPT !["word"] = -30]} :
              locals = [NoLocals EXCEPT !.scores = b]
  /\ result = None
  /\ exc = None
  /\ exit = None
  /\ twin = None
  /\ previous = None

NextVerdict == ChooseVerdict

SpecVerdict == InitVerdict /\ [][NextVerdict]_vars

(* ---- two runs -------------------------------------------------------------- *)

(* The program is run on an archive and then on a second one that differs   *)
(* from the first only in entries score_docx does not put into parts.  In   *)
(* the second run each of word_variants_checks, check_speculative_wordaspect *)
(* and check_speculative_lomarkeshare returns what its code computes or any *)
(* other value of its return type.                                          *)

MaxTwinEdits == 1

(* the entries of EntryOrder score_docx reads into no key of parts *)
TwinEntries ==
  {"word/webSettings.xml", "webextensions/taskpanes.xml", "customXml/contoso.sharepoint.com.xml"}

Twins(a) == EditedBy({a}, {e \in Edits : e[2] \in TwinEntries}, MaxTwinEdits)

InitTwin ==
  /\ file \in {[kind |-> "zip", zf |-> a] : a \in Profiles}
  /\ Started
  /\ twin \in Twins(file.zf)
  /\ previous = None

(* main is run again, on the twin *)
Rerun ==
  /\ pc = "exited"
  /\ twin # None
  /\ previous = None
  /\ previous' = [file |-> file, parts |-> parts, locals |-> locals, result |-> result,
                  exit |-> exit]
  /\ file' = [kind |-> "zip", zf |-> twin]
  /\ pc' = "ZipFile"
  /\ zf' = None
  /\ parts' = None
  /\ locals' = NoLocals
  /\ result' = None
  /\ exc' = None
  /\ exit' = None
  /\ twin' = twin

OtherScores == {0, 1000}

(* word_variant = word_variants_checks(zf, parts), returning something else *)
WordVariantsReturns ==
  /\ previous # None
  /\ \E s \in OtherScores :
       Assign("word_variants_checks", "word_variant",
              [score |-> [word_web |-> s, word_desktop |-> s],
               ev |-> [word_web |-> <<>>, word_desktop |-> <<>>]],
              "wordpad_checks")

(* wordweb_score, wordweb_ev = check_speculative_wordaspect(zf), returning  *)
(* something else                                                           *)
WordaspectReturns ==
  /\ previous # None
  /\ \E s \in OtherScores :
       Assign("wordaspect", "wordweb", [score |-> s, ev |-> <<>>], "lomarkeshare")

(* lo_extras = check_speculative_lomarkeshare({...}), returning something   *)
(* else                                                                     *)
LomarkeshareReturns ==
  /\ previous # None
  /\ \E s \in OtherScores :
       Assign("lomarkeshare", "lo_extras",
              [scores |-> [k \in {"wps", "onlyoffice", "abiword", "calligra", "wordpad",
                                  "softmaker", "programmatic"} |-> s],
               evidences |-> <<>>],
              "return")

NextTwin ==
  \/ ZipFile
  \/ BuildParts
  \/ LoChecks
  \/ GdocsChecks
  \/ PagesChecks
  \/ PandocChecks
  \/ WordChecks
  \/ WordVariantsChecks
  \/ WordVariantsReturns
  \/ WordpadChecks
  \/ TexteditChecks
  \/ Scores
  \/ ChooseVerdict
  \/ Evidence
  \/ Taint
  \/ SpeculativeWordaspect
  \/ WordaspectReturns
  \/ SpeculativeLomarkeshare
  \/ LomarkeshareReturns
  \/ Return
  \/ Report
  \/ Rerun

SpecTwin == InitTwin /\ [][NextTwin]_vars

(* ---- taint_like on its own -------------------------------------------------- *)

(* taint_like is computed from the scores of the detectors, one score of an *)
(* origin other than Word is raised, and taint_like is computed again.      *)

TaintGrid == {0, 150, 400, 1000}

NonWordLocals == {"lo", "gd", "pg", "pd", "wp", "te"}

InitTaint ==
  /\ file = None
  /\ pc = "taint_like"
  /\ zf = None
  /\ parts = None
  /\ \E f \in [NonWordLocals \cup {"wd"} -> TaintGrid] :
       locals = [k \in DOMAIN NoLocals |->
                   IF k \in DOMAIN f THEN [score |-> f[k], ev |-> <<>>] ELSE None]
  /\ result = None
  /\ exc = None
  /\ exit = None
  /\ twin = None
  /\ previous = None

(* the same scores but for one, of an origin other than Word, that is higher *)
RaiseScore ==
  /\ pc = "wordaspect"
  /\ previous = None
  /\ \E d \in NonWordLocals : \E v \in TaintGrid :
       /\ v > locals[d].score
       /\ locals' = [locals EXCEPT ![d] = [score |-> v, ev |-> <<>>], !.taint_like = None]
  /\ previous' = [file |-> file, parts |-> parts, locals |-> locals, result |-> result,
                  exit |-> exit]
  /\ pc' = "taint_like"
  /\ UNCHANGED <<file, zf, parts, result, exc, exit, twin>>

NextTaint ==
  \/ Taint
  \/ RaiseScore

SpecTaint == InitTaint /\ [][NextTaint]_vars

(* ---- the same archive twice ------------------------------------------------ *)

(* The program is run on an archive and then on the same archive again. *)

InitRerun ==
  /\ file \in {f \in Files : f.kind = "zip"}
  /\ Started
  /\ twin = file.zf
  /\ previous = None

NextRerun ==
  \/ ZipFile
  \/ BuildParts
  \/ LoChecks
  \/ GdocsChecks
  \/ PagesChecks
  \/ PandocChecks
  \/ WordChecks
  \/ WordVariantsChecks
  \/ WordpadChecks
  \/ TexteditChecks
  \/ Scores
  \/ ChooseVerdict
  \/ Evidence
  \/ Taint
  \/ SpeculativeWordaspect
  \/ SpeculativeLomarkeshare
  \/ Return
  \/ Except
  \/ Report
  \/ Rerun

SpecRerun == InitRerun /\ [][NextRerun]_vars

(* ---- properties ------------------------------------------------------------ *)

(* the highest score of an origin other than Word *)
TopVal(scores) == Max({scores[k] : k \in ScoreKeys \ {"word"}})

(* the origins other than Word that have the highest score *)
Tops(scores) == {k \in ScoreKeys \ {"word"} : scores[k] = TopVal(scores)}

(* C1: every score of the scores dict score_docx returns lies in [0, 10],  *)
(* the Word score included whatever the manifest-order deduction takes.     *)
C1_ScoresInRange ==
  result # None =>
    \A k \in ScoreKeys : 0 <= result.scores[k] /\ result.scores[k] <= 1000

(* C2: the taint score_docx returns is the highest score of the six        *)
(* origins other than Word.                                                 *)
C2_TaintIsMaxNonWord ==
  result # None => result.taint = TopVal(result.scores)

(* The labels the priority cascade allows for a scores dict. *)
Cascade(scores) ==
  LET topVal == TopVal(scores)
      word == scores["word"]
  IN IF topVal >= 700 THEN {"Definitely " \o label(k) \o " export" : k \in Tops(scores)}
     ELSE IF topVal >= 500
          THEN {"Likely " \o label(k) \o " export or mixed" : k \in Tops(scores)}
     ELSE IF word >= 700 /\ topVal < 400 THEN {"Pure Microsoft Word"}
     ELSE IF word >= 500 /\ topVal < 500
          THEN {"Probably Microsoft Word (minor artifacts present)"}
     ELSE {"Inconclusive / mixed"}

(* C3: for every scores dict over the seven origins choose_verdict returns *)
(* the label of the priority cascade, the thresholds taken exactly.         *)
C3_VerdictIsCascade ==
  pc = "evidence" => locals.verdict \in Cascade(locals.scores)

(* choose_verdict has been applied to the all-zero scores dict *)
C3_AllZeroInconclusive ==
  /\ pc = "evidence"
  /\ \A k \in ScoreKeys : locals.scores[k] = 0
  /\ locals.verdict = "Inconclusive / mixed"

(* C4: when the highest score other than Word's is 7 or more the verdict   *)
(* is "Definitely <top> export", whatever the Word score.                   *)
C4_DefinitelyFromSeven ==
  (pc = "evidence" /\ TopVal(locals.scores) >= 700) =>
    \E k \in Tops(locals.scores) : locals.verdict = "Definitely " \o label(k) \o " export"

(* choose_verdict has been applied with the top score at 7.0 and Word at 3.0 *)
C4_SevenAgainstThree ==
  /\ pc = "evidence"
  /\ TopVal(locals.scores) = 700
  /\ locals.scores["word"] = 300
  /\ \E k \in Tops(locals.scores) : locals.verdict = "Definitely " \o label(k) \o " export"

(* C5, as the code has it: with the highest score other than Word's at     *)
(* 4.99 and Word at 7.0 the verdict is "Probably Microsoft Word (minor      *)
(* artifacts present)".                                                     *)
C5_ProbablyWordAtBoundary ==
  (pc = "evidence" /\ TopVal(locals.scores) = 499 /\ locals.scores["word"] = 700) =>
    locals.verdict = "Probably Microsoft Word (minor artifacts present)"

(* choose_verdict has been applied with the top score at 4.99 and Word at 7.0 *)
C5_BoundaryApplied ==
  /\ pc = "evidence"
  /\ TopVal(locals.scores) = 499
  /\ locals.scores["word"] = 700

(* C5, as stated: with the highest score other than Word's at 4.99 and     *)
(* Word at 7.0 the verdict is "Pure Microsoft Word".                        *)
C5_PureWordAtBoundary ==
  (pc = "evidence" /\ TopVal(locals.scores) = 499 /\ locals.scores["word"] = 700) =>
    locals.verdict = "Pure Microsoft Word"

(* C6: once the archive is open no exception leaves score_docx, and main   *)
(* ends having printed a report with a verdict.                             *)
C6_ParseFailureAbsorbed ==
  zf # None =>
    /\ exc = None
    /\ (pc = "exited" => (exit = Printed /\ result # None))

(* The evidence of the signals of the primary detectors that read          *)
(* word/styles.xml.                                                         *)
StylesEvidence ==
  {"Found LibreOffice-style names (Text Body / Standard)",
   "LibreOffice font families referenced in styles",
   "Boolean attributes serialized as w:val='1' (Google Docs pattern)",
   "Decimal-style numeric attributes (e.g., w:w='0.0') found",
   "Lowercase 6-digit hex color codes (weak Google Docs pattern)",
   "Contains w16se:symex namespace (weak marker; Word may include)",
   "Contains 'SourceCode' / 'VerbatimChar' styles (Pandoc hallmark)",
   "Contains Pygments token styles (Pandoc code highlighting)",
   "Missing <w:latentStyles> (common in Pandoc-generated DOCX)",
   "Tiny styles.xml with only 'Normal' style (WordPad hallmark)",
   "Heading1-3 style cascade present (Word defaults)"}

(* no signal that reads word/styles.xml is among the evidence *)
NoStylesSignal(evidence) ==
  \A k \in ScoreKeys : \A i \in DOMAIN evidence[k] : evidence[k][i] \notin StylesEvidence

(* C7: for an archive without word/styles.xml, whatever its other entries  *)
(* hold, score_docx raises nothing and returns scores for the seven origins *)
(* to which no signal that reads the styles has contributed.                *)
C7_MissingStyles ==
  (zf # None /\ "word/styles.xml" \notin DOMAIN zf) =>
    /\ exc = None
    /\ (pc = "exited" => (exit = Printed /\ result # None))
    /\ (result # None =>
          (DOMAIN result.scores = ScoreKeys /\ NoStylesSignal(result.evidence)))

(* the evidence word_checks appends with the +1.2 *)
BoostEvidence == "No strong non-Word indicators (boosting Word confidence)"

(* C8: word_checks has added the +1.2 exactly when no origin other than    *)
(* Word scores 4 or more.                                                   *)
C8_BoostExactly ==
  result # None =>
    ((\E i \in DOMAIN result.evidence["word"] : result.evidence["word"][i] = BoostEvidence)
       <=> TopVal(result.scores) < 400)

(* the locals holding what the seven primary detectors returned *)
DetectorLocals == {"lo", "gd", "pg", "pd", "wd", "wp", "te"}

(* C9: two runs whose parts dicts are equal get the same score and the     *)
(* same evidence from each of the seven primary detectors.                  *)
C9_ResultsFromPartsAlone ==
  (previous # None /\ pc = "scores" /\ parts = previous.parts) =>
    \A d \in DetectorLocals : locals[d] = previous.locals[d]

(* C10: a second run on the same archive in which word_variants_checks,    *)
(* check_speculative_wordaspect and check_speculative_lomarkeshare return  *)
(* other values returns the same scores, taint and verdict as the first.    *)
C10_AdviceDoesNotFeedBack ==
  (previous # None /\ result # None /\ file = previous.file) =>
    /\ result.scores = previous.result.scores
    /\ result.taint = previous.result.taint
    /\ result.verdict = previous.result.verdict

(* a second run on the same archive has returned with all three of the     *)
(* advisory results other than those of the first run                       *)
C10_AdviceChanged ==
  /\ previous # None
  /\ result # None
  /\ file = previous.file
  /\ result.word_variants # previous.result.word_variants
  /\ result.speculative.word_web # previous.result.speculative.word_web
  /\ result.speculative.other_engines # previous.result.speculative.other_engines

C12_UnreadableEndsBeforeParts ==
  file.kind # "zip" =>
    /\ zf = None /\ parts = None /\ locals = NoLocals /\ result = None
    /\ pc \in {"ZipFile", "raised", "exited"}
    /\ (pc = "exited" => (exit # None /\ exit # Printed))

(* main has ended on a file that is no ZIP archive *)
C12_NotAZipReported ==
  /\ file.kind = "not a zip"
  /\ pc = "exited"
  /\ exit = [kind |-> "Error: not a valid DOCX file"]

(* C13: when one score of an origin other than Word is raised and the      *)
(* other scores are kept, taint_like does not get lower.                    *)
C13_TaintMonotone ==
  (previous # None /\ pc = "wordaspect") =>
    locals.taint_like >= previous.locals.taint_like

(* taint_like has been computed again after a score was raised, and is higher *)
C13_TaintRaised ==
  /\ previous # None
  /\ pc = "wordaspect"
  /\ locals.taint_like > previous.locals.taint_like

(* C14: in a run the parts are read before any detector returns, every     *)
(* detector of an origin other than Word has returned before word_checks    *)
(* does, all detectors have returned before the scores dict is built, and   *)
(* the scores dict is built before the verdict is chosen.                   *)
C14_NonWordBeforeWord ==
  /\ (\E d \in NonWordLocals \cup {"wd"} : locals[d] # None) => parts # None
  /\ locals.wd # None => \A d \in NonWordLocals : locals[d] # None
  /\ locals.scores # None => \A d \in NonWordLocals \cup {"wd"} : locals[d] # None
  /\ locals.verdict # None => locals.scores # None

(* The weight of each evidence item of the primary detectors: what the     *)
(* code adds to the score where it appends the item; for the two weak       *)
(* Google Docs markers the 0.5 it adds for them further down, and 0 for the *)
(* item lo_checks appends without adding to the score.                      *)
Weight ==
     ( "Application tag indicates LibreOffice" :> 600 )
  @@ ( "LibreOffice font families present (Liberation/Noto/Lohit)" :> 300 )
  @@ ( "No <w:panose1> or <w:sig> font fingerprints (often present in Word)" :> 0 )
  @@ ( "Found <w:formProt> (LibreOffice hallmark)" :> 300 )
  @@ ( "Found LibreOffice-style names (Text Body / Standard)" :> 300 )
  @@ ( "LibreOffice font families referenced in styles" :> 300 )
  @@ ( "Contains <w:autoHyphenation> (possible LO default)" :> 50 )
  @@ ( "Lists extra image MIME types (often seen in LO)" :> 100 )
  @@ ( "Boolean serialization uses numeric form (LibreOffice style)" :> 20 )
  @@ ( "AppVersion property includes LibreOffice/Linux signature" :> 30 )
  @@ ( "Open bibliography schema without Microsoft URIs (LO-style rewrite)" :> 40 )
  @@ ( "Boolean attributes serialized as w:val='1' (Google Docs pattern)" :> 200 )
  @@ ( "Decimal-style numeric attributes (e.g., w:w='0.0') found" :> 150 )
  @@ ( "Lowercase 6-digit hex color codes (weak Google Docs pattern)" :> 50 )
  @@ ( "Contains w16se:symex namespace (weak marker; Word may include)" :> 50 )
  @@ ( "Contains Play / Play Bold fonts (Google bundle)" :> 300 )
  @@ ( "Contains Roboto/Noto font families (Google pattern)" :> 150 )
  @@ ( "Contains Helvetica Neue (Apple Pages default font)" :> 450 )
  @@ ( "Missing thm15 theme namespace (Pages-style theme)" :> 150 )
  @@ ( "Theme uses only <a:srgbClr> (no <a:sysClr>)" :> 100 )
  @@ ( "No <a:objectDefaults> or <a:extLst> (weak Pages indicator)" :> 50 )
  @@ ( "Explicit Apple/Pages marker in metadata" :> 350 )
  @@ ( "Application or core properties mention Pandoc" :> 800 )
  @@ ( "App properties minimal (likely programmatic generation)" :> 150 )
  @@ ( "Contains 'SourceCode' / 'VerbatimChar' styles (Pandoc hallmark)" :> 250 )
  @@ ( "Contains Pygments token styles (Pandoc code highlighting)" :> 200 )
  @@ ( "Theme lacks thm15 namespace, uses only sRGB colors (Pandoc minimal theme)" :> 150 )
  @@ ( "Generic Calibri/Cambria font table (typical Pandoc default)" :> 100 )
  @@ ( "Document XML lacks Word-specific rsid and mc:Ignorable attributes" :> 100 )
  @@ ( "Contains <w:doNotSaveAsSingleFile> without optimizeForBrowser (Pandoc default)" :> 80 )
  @@ ( "Missing <w:latentStyles> (common in Pandoc-generated DOCX)" :> 80 )
  @@ ( "Low <w:r>/<w:p> ratio (flattened run structure typical of Pandoc)" :> 80 )
  @@ ( "Paragraph properties minimal (no spacing/indent attributes)" :> 50 )
  @@ ( "Math font substitution (Lucida instead of Cambria Math)" :> 50 )
  @@ ( "Classic Office 2007 color palette (Pandoc default theme)" :> 50 )
  @@ ( "Empty author/modified fields (metadata stripped by Pandoc)" :> 50 )
  @@ ( "Content_Types.xml lacks theme/settings/fontTable overrides (WordPad pattern)" :> 300 )
  @@ ( "Tiny styles.xml with only 'Normal' style (WordPad hallmark)" :> 300 )
  @@ ( "Document XML uses only xmlns:w (minimal namespace set typical of WordPad)" :> 300 )
  @@ ( "No app/core properties (WordPad omits docProps entirely)" :> 100 )
  @@ ( "Has theme but lacks styles/settings/fontTable/numbering (TextEdit pattern)" :> 300 )
  @@ ( "app.xml is empty <Properties> with no <Application> tag (TextEdit hallmark)" :> 300 )
  @@ ( "core.xml uses cp: prefix and only dc:creator (TextEdit serialization)" :> 200 )
  @@ ( "document.xml limited to base namespaces and hardcoded Times font" :> 200 )
  @@ ( "Theme1.xml uses name='Default Theme' (TextEdit theme rewrite)" :> 100 )
  @@ ( "No customXml or extended properties (TextEdit metadata purge)" :> 100 )
  @@ ( "Application tag indicates Microsoft Word" :> 400 )
  @@ ( "Theme includes thm15 namespace (common in Word)" :> 150 )
  @@ ( "Theme uses <a:sysClr> (Windows system color mapping)" :> 100 )
  @@ ( "Font table includes <w:panose1> / <w:sig> fingerprints (Word)" :> 100 )
  @@ ( "Heading1-3 style cascade present (Word defaults)" :> 80 )
  @@ ( "No strong non-Word indicators (boosting Word confidence)" :> 120 )
  @@ ( "Override order in [Content_Types].xml shows docProps before /word/document.xml (python-docx generation pattern; small deduction)" :>
         -30 )

RECURSIVE SumWeights(_)
(* the sum of the weights of the items of an evidence list *)
SumWeights(ev) == IF ev = <<>> THEN 0 ELSE Weight[Head(ev)] + SumWeights(Tail(ev))

(* the locals holding what the seven primary detectors returned *)
PrimaryLocals == NonWordLocals \cup {"wd"}

(* C15: for every primary detector each evidence item stands for one       *)
(* contribution of its weight to the score: no item has no weight, and the  *)
(* score is the sum of the weights of the items, clamped at 10.             *)
C15_EvidenceMatchesWeights ==
  \A d \in PrimaryLocals :
    locals[d] # None =>
      /\ \A i \in DOMAIN locals[d].ev : Weight[locals[d].ev[i]] # 0
      /\ locals[d].score = Min(SumWeights(locals[d].ev), 1000)

(* the two weak Google Docs markers, and the two font signals *)
GdWeak ==
  { "Lowercase 6-digit hex color codes (weak Google Docs pattern)",
    "Contains w16se:symex namespace (weak marker; Word may include)" }

GdFonts ==
  { "Contains Play / Play Bold fonts (Google bundle)",
    "Contains Roboto/Noto font families (Google pattern)" }

IsGdWeak(e) == e \in GdWeak

NotGdWeak(e) == e \notin GdWeak

PgWeak == "No <a:objectDefaults> or <a:extLst> (weak Pages indicator)"

(* what the Pages weak indicator is held to: where its item stands, the    *)
(* weights of the items before it come to 1.5 at least                      *)
PagesWeakGuarded ==
  locals.pg # None =>
    \A i \in DOMAIN locals.pg.ev :
      locals.pg.ev[i] = PgWeak => SumWeights(SubSeq(locals.pg.ev, 1, i - 1)) >= 150

(* C16 as amended: the weak Google Docs markers add 0.5 each exactly when   *)
(* a font signal (Play, or Roboto/Noto) has fired or the other signals      *)
(* come to 2.5 at least, and nothing otherwise; the Pages weak indicator    *)
(* adds its 0.5 only on an accumulated score of 1.5 at least.               *)
C16_WeakNeedsFontOrScore ==
  /\ locals.gd # None =>
       LET ev == locals.gd.ev
           base == SumWeights(SelectSeq(ev, NotGdWeak))
           fonts == \E i \in DOMAIN ev : ev[i] \in GdFonts
           extra == IF fonts \/ base >= 250
                    THEN 50 * Len(SelectSeq(ev, IsGdWeak)) ELSE 0
       IN locals.gd.score = base + extra
  /\ PagesWeakGuarded

(* a weak marker has added its 0.5 beside a font signal *)
C16_WeakMarkerCounted ==
  /\ locals.gd # None
  /\ \E i \in DOMAIN locals.gd.ev : locals.gd.ev[i] \in GdWeak
  /\ \E i \in DOMAIN locals.gd.ev : locals.gd.ev[i] \in GdFonts
  /\ locals.gd.score > SumWeights(SelectSeq(locals.gd.ev, NotGdWeak))

(* C16 as stated: where the weak markers are the only matches, or one      *)
(* signal of less than 2.5 is all that accompanies them, they add nothing.  *)
C16_WeakNeedsStrong ==
  /\ locals.gd # None =>
       LET ev == locals.gd.ev
           others == SelectSeq(ev, NotGdWeak)
       IN (Len(others) = 0 \/ (Len(others) = 1 /\ Weight[others[1]] < 250))
            => locals.gd.score = SumWeights(others)
  /\ PagesWeakGuarded

(* the summary main printed names a variant of Microsoft Word *)
NamesVariant(lines) ==
  \E i \in DOMAIN lines :
    lines[i] \in {VariantLine("Word for the Web"), VariantLine("Word Desktop")}

(* C17: a printed report whose verdict is not one of the two Microsoft Word *)
(* verdicts presents no web-or-desktop variant: its summary has no 'Within  *)
(* Microsoft Word ...' sentence.                                            *)
C17_VariantOnlyForWord ==
  (pc = "exited" /\ exit = Printed) =>
    (NamesVariant(summarize_provenance(result)) =>
       result.verdict \in {"Pure Microsoft Word",
                           "Probably Microsoft Word (minor artifacts present)"})

(* The sum of the weights a detector folded into its score, read from its  *)
(* evidence: the weights of its items, the weak Google Docs markers         *)
(* counting only beside a font signal or other signals of 2.5 together.     *)
FiredSum(d) ==
  LET ev == locals[d].ev
      base == SumWeights(SelectSeq(ev, NotGdWeak))
  IN IF d = "gd"
     THEN IF (\E i \in DOMAIN ev : ev[i] \in GdFonts) \/ base >= 250
          THEN SumWeights(ev) ELSE base
     ELSE SumWeights(ev)

(* C18: the score a primary detector returns is the plain sum of the fired  *)
(* weights where that sum is at most 10, and exactly 10 where it is more:   *)
(* clamped, never rescaled, with every fired item still in the evidence.    *)
C18_ClampNotRenormalize ==
  \A d \in PrimaryLocals :
    locals[d] # None =>
      /\ FiredSum(d) <= 1000 => locals[d].score = FiredSum(d)
      /\ FiredSum(d) > 1000 => locals[d].score = 1000

(* the Pages or the TextEdit detector, its fired weights coming to more    *)
(* than 10, has returned 10                                                 *)
C18_Saturated ==
  \E d \in {"pg", "te"} :
    locals[d] # None /\ FiredSum(d) > 1000 /\ locals[d].score = 1000

(* the fixed order of the origins other than Word *)
FixedOrder == <<"libreoffice", "google_docs", "apple_pages", "pandoc", "wordpad", "textedit">>

(* the least number of a non-empty set of numbers *)
LeastOf(S) == CHOOSE i \in S : \A j \in S : i <= j

(* the first, in the fixed order, of the origins that have the highest score *)
FirstTop(scores) ==
  FixedOrder[LeastOf({i \in DOMAIN FixedOrder : FixedOrder[i] \in Tops(scores)})]

(* C19: where several origins other than Word tie for the highest score,   *)
(* a 'Definitely' or 'Likely' verdict names the first of them in the order  *)
(* libreoffice, google_docs, apple_pages, pandoc, wordpad, textedit.        *)
C19_TieNamesFirst ==
  (pc = "evidence" /\ TopVal(locals.scores) >= 500) =>
    locals.verdict =
      IF TopVal(locals.scores) >= 700
      THEN "Definitely " \o label(FirstTop(locals.scores)) \o " export"
      ELSE "Likely " \o label(FirstTop(locals.scores)) \o " export or mixed"

(* choose_verdict has named an origin where three tie for the highest score *)
(* and libreoffice is not among them                                        *)
C19_TieBroken ==
  /\ pc = "evidence"
  /\ TopVal(locals.scores) >= 500
  /\ Cardinality(Tops(locals.scores)) = 3
  /\ "libreoffice" \notin Tops(locals.scores)
  /\ locals.verdict \in {"Definitely " \o label(FirstTop(locals.scores)) \o " export",
                         "Likely " \o label(FirstTop(locals.scores)) \o " export or mixed"}

====
